---- MODULE Spec2Model ----
(***************************************************************************)
(* Model of the incidenter session manager (src/utils/session_manager.py)  *)
(* and of the web evidence-discovery resolver (src/server/app.py).         *)
(*                                                                         *)
(* Python values whose type matters are tagged records: a datetime object  *)
(* is DT(t), the string datetime.isoformat() produces is Iso(t), None is   *)
(* PyNone, a number is Num(v).  Plain TLA+ strings stand for Python        *)
(* strings that do not look like an ISO timestamp.                         *)
(*                                                                         *)
(* The manager holds Python object references: the session cache maps an   *)
(* id to an object and current_session is a reference too.  current is    *)
(* either PyNone, [kind |-> "ref", id] (the very object cache[id]) or      *)
(* [kind |-> "own", s] (an object the cache does not hold).                *)
(*                                                                         *)
(* Every SessionManager method is an operator over the manager's state m   *)
(* = [now, max_sessions, current, cache, files] that yields the state the  *)
(* call leaves and, in ret, what the call returns; the action of the same  *)
(* method applies it.  A src field of a stored record remembers the object *)
(* it was serialized from (a history value, the program does not read it). *)
(***************************************************************************)
EXTENDS Integers, Sequences, FiniteSets, TLC

VARIABLES
    now,           \* the wall clock (datetime.now(), st_mtime), a logical instant
    max_sessions,  \* SessionManager.max_sessions
    current,       \* SessionManager.current_session
    cache,         \* SessionManager._session_cache: id -> SessionState
    files,         \* sessions_dir: id -> [mtime, content, src] for <id>.json
    rin,           \* resolver: the inputs of check_for_evidence_discovery
    rout           \* resolver: its return value

vars == <<now, max_sessions, current, cache, files, rin, rout>>
mgrVars == <<now, max_sessions, current, cache, files>>
resVars == <<rin, rout>>

----------------------------------------------------------------------------
(* Bounds of the model *)

\* clock readings (stamping or writing operations) in one behaviour
MaxTime == 2
\* the largest max_sessions a manager is constructed with
MaxKeep == 1
\* the longest evidence list of a scenario handed to the resolver
MaxItems == 2
\* investigate requests one web session receives in one behaviour
MaxRequests == 2

\* the session ids of the model (uuid4()[:8] strings)
SessionIds == {"s1", "s2", "s3"}
\* the records the directory holds at start, oldest first, written at 1, 2, ..
StoredIds == <<"s1", "s2">>
StartTime == Len(StoredIds)

----------------------------------------------------------------------------
(* Python values *)

PyNone == [kind |-> "none"]
Absent == [kind |-> "absent"]
DT(t) == [kind |-> "datetime", t |-> t]
Iso(t) == [kind |-> "str", t |-> t]
Num(v) == [kind |-> "num", v |-> v]
Corrupt == [kind |-> "corrupt"]

\* Python truthiness of a value (None, 0 and 0.0 are false)
Truthy(v) == ~(v.kind = "none" \/ (v.kind = "num" /\ v.v = 0))

isoformat(v) == Iso(v.t)
fromisoformat(v) == DT(v.t)

\* _serialize_datetimes on a leaf: a datetime becomes its ISO string
SerializeLeaf(v) == IF v.kind = "datetime" THEN isoformat(v) ELSE v

\* _deserialize_datetimes on a leaf: a string that looks like an ISO
\* timestamp (len > 15, "T" and ":" in it) becomes a datetime
DeserializeLeaf(v) == IF v.kind = "str" THEN fromisoformat(v) ELSE v

SerializeEntries(seq) ==
    [i \in 1..Len(seq) |-> [seq[i] EXCEPT !.timestamp = SerializeLeaf(@)]]
DeserializeEntries(seq) ==
    [i \in 1..Len(seq) |-> [seq[i] EXCEPT !.timestamp = DeserializeLeaf(@)]]
SerializeEvidence(seq) ==
    [i \in 1..Len(seq) |-> [seq[i] EXCEPT !.discovered_at = SerializeLeaf(@)]]
DeserializeEvidence(seq) ==
    [i \in 1..Len(seq) |-> [seq[i] EXCEPT !.discovered_at = DeserializeLeaf(@)]]

\* save_session lines 134-141: asdict, start_time and completion_time to
\* ISO strings, then _serialize_datetimes over the nested structures
Serialize(s) ==
    [s EXCEPT
        !.start_time = isoformat(@),
        !.completion_time = IF Truthy(@) THEN isoformat(@) ELSE @,
        !.investigation_actions = SerializeEntries(@),
        !.evidence_discovered = SerializeEvidence(@),
        !.theories_submitted = SerializeEntries(@),
        !.metadata = [@ EXCEPT !.created_at = SerializeLeaf(@)]]

\* load_session lines 181-194: start_time and completion_time parsed, then
\* _deserialize_datetimes over the whole dict, then SessionState(**dict)
Deserialize(d) ==
    [d EXCEPT
        !.start_time = fromisoformat(@),
        !.completion_time = IF Truthy(@) THEN fromisoformat(@) ELSE @,
        !.investigation_actions = DeserializeEntries(@),
        !.evidence_discovered = DeserializeEvidence(@),
        !.theories_submitted = DeserializeEntries(@),
        !.metadata = [@ EXCEPT !.created_at = DeserializeLeaf(@)]]

\* create_session lines 86-100: the SessionState built at instant t
NewSession(id, t) ==
    [session_id |-> id,
     scenario_id |-> "S1",
     scenario_name |-> "Scenario",
     player_name |-> "Player",
     start_time |-> DT(t),
     current_phase |-> "Initial Access",
     investigation_actions |-> <<>>,
     evidence_discovered |-> <<>>,
     theories_submitted |-> <<>>,
     hints_used |-> 0,
     score_checkpoints |-> <<>>,
     is_completed |-> FALSE,
     completion_time |-> PyNone,
     final_score |-> PyNone,
     session_notes |-> "",
     metadata |-> [created_at |-> Iso(t), version |-> "1.0"]]

----------------------------------------------------------------------------
(* The manager's memory *)

EmptyMap == [x \in {} |-> PyNone]
Restrict(f, S) == [x \in S |-> f[x]]
Range(seq) == {seq[i] : i \in 1..Len(seq)}

\* the manager as the variables hold it
M == [now |-> now, max_sessions |-> max_sessions, current |-> current,
      cache |-> cache, files |-> files]

\* a call's outcome: the state it leaves and the value it returns
Returns(m, ret) ==
    [now |-> m.now, max_sessions |-> m.max_sessions, current |-> m.current,
     cache |-> m.cache, files |-> m.files, ret |-> ret]
StateOf(r) ==
    [now |-> r.now, max_sessions |-> r.max_sessions, current |-> r.current,
     cache |-> r.cache, files |-> r.files]

HasCurrent(m) == m.current.kind # "none"
\* the object current_session refers to
CurState(m) == IF m.current.kind = "ref" THEN m.cache[m.current.id] ELSE m.current.s

\* the object current_session refers to changed in place to s1
SetCurState(m, s1) ==
    IF m.current.kind = "ref"
    THEN [m EXCEPT !.cache = [@ EXCEPT ![m.current.id] = s1]]
    ELSE [m EXCEPT !.current = [kind |-> "own", s |-> s1]]

\* del self._session_cache[id] for the ids in gone: an object current_session
\* still refers to lives on outside the cache
Evict(m, gone) ==
    [m EXCEPT
        !.cache = Restrict(@, DOMAIN @ \ gone),
        !.current = IF @.kind = "ref" /\ @.id \in gone
                    THEN [kind |-> "own", s |-> m.cache[@.id]]
                    ELSE @]

----------------------------------------------------------------------------
(* The sessions directory *)

RECURSIVE SortNewestFirst(_, _)
\* session_files.sort(key=mtime, reverse=True) over the ids in S
SortNewestFirst(fs, S) ==
    IF S = {} THEN <<>>
    ELSE LET newest == CHOOSE i \in S : \A j \in S : fs[j].mtime <= fs[i].mtime
         IN  <<newest>> \o SortNewestFirst(fs, S \ {newest})

\* FilesToDelete with the sort's reverse=True dropped: the list is oldest
\* first, so the slice removes the newest records
FilesToDeleteOldestKept(fs, max) ==
    LET session_files == SortNewestFirst(fs, DOMAIN fs)
    IN  IF Len(session_files) > max
        THEN Range(SubSeq(session_files, 1, Len(session_files) - max))
        ELSE {}

\* _cleanup_old_sessions lines 619-624: session_files[max_sessions:]
FilesToDelete(fs, max) ==
    LET session_files == SortNewestFirst(fs, DOMAIN fs)
    IN  IF Len(session_files) > max
        THEN Range(SubSeq(session_files, max + 1, Len(session_files)))
        ELSE {}

\* _cleanup_old_sessions(max): for each file to delete, its cache entry and
\* the file go
CleanupOldSessions(m, max) ==
    LET gone == FilesToDelete(m.files, max)
    IN  [Evict(m, gone) EXCEPT !.files = Restrict(@, DOMAIN @ \ gone)]

\* open(session_file, "w") and json.dump at instant t
WriteRecord(fs, s, t, content) ==
    [id \in DOMAIN fs \cup {s.session_id} |->
        IF id = s.session_id
        THEN [mtime |-> t, content |-> content, src |-> s]
        ELSE fs[id]]

Faults == {"none", "open", "write"}

\* save_session lines 130-155 for the session object s, at instant m.now.
\*   fault "none":  the record is written, then the retention cleanup runs
\*   fault "open":  open() raises, nothing is written
\*   fault "write": json.dump raises after open() truncated the file
SaveSession(m, s, fault) ==
    IF fault = "open" THEN Returns(m, FALSE)
    ELSE IF fault = "write"
    THEN Returns([m EXCEPT !.files = WriteRecord(@, s, m.now, Corrupt)], FALSE)
    ELSE Returns(
            CleanupOldSessions(
                [m EXCEPT !.files = WriteRecord(@, s, m.now, Serialize(s))],
                m.max_sessions),
            TRUE)

----------------------------------------------------------------------------
(* SessionManager methods.  A method that reads the clock or writes a      *)
(* record runs at the next instant.                                        *)

Tick(m) == [m EXCEPT !.now = @ + 1]

\* save_session(session=None): the current session, False when there is none
save_session(m, fault) ==
    IF ~HasCurrent(m) THEN Returns(m, FALSE)
    ELSE SaveSession(Tick(m), CurState(m), fault)

\* create_session with session_id = id (uuid4()[:8])
create_session(m, id, fault) ==
    LET m1 == Tick(m)
        session == NewSession(id, m1.now)
        m2 == [m1 EXCEPT
                  !.current = [kind |-> "ref", id |-> id],
                  !.cache = [x \in DOMAIN @ \cup {id} |->
                                IF x = id THEN session ELSE @[x]]]
    IN  Returns(StateOf(SaveSession(m2, session, fault)), "Session")

load_session(m, session_id) ==
    IF session_id \in DOMAIN m.cache THEN Returns(m, "Session")
    ELSE IF session_id \notin DOMAIN m.files THEN Returns(m, "None")
    ELSE IF m.files[session_id].content = Corrupt THEN Returns(m, "None")
    ELSE Returns(
            [m EXCEPT !.cache =
                [x \in DOMAIN @ \cup {session_id} |->
                    IF x = session_id
                    THEN Deserialize(m.files[session_id].content)
                    ELSE @[x]]],
            "Session")

\* delete_session without lines 280-281: the cache entry stays
delete_session_keeps_cache(m, session_id) ==
    IF session_id \in DOMAIN m.files
    THEN Returns(
            [m EXCEPT
                !.files = Restrict(@, DOMAIN @ \ {session_id}),
                !.current = IF HasCurrent(m) /\ CurState(m).session_id = session_id
                            THEN PyNone ELSE @],
            TRUE)
    ELSE Returns(m, FALSE)

delete_session(m, session_id) ==
    IF session_id \in DOMAIN m.files
    THEN Returns(
            [m EXCEPT
                !.files = Restrict(@, DOMAIN @ \ {session_id}),
                !.cache = Restrict(@, DOMAIN @ \ {session_id}),
                !.current = IF HasCurrent(m) /\ CurState(m).session_id = session_id
                            THEN PyNone ELSE @],
            TRUE)
    ELSE Returns(m, FALSE)

\* resume_session without the is_completed test of lines 316-318
resume_session_unchecked(m, session_id) ==
    LET loaded == load_session(m, session_id)
    IN  IF loaded.ret = "None" THEN loaded
        ELSE Returns(
                [StateOf(loaded) EXCEPT !.current = [kind |-> "ref", id |-> session_id]],
                "Session")

resume_session(m, session_id) ==
    LET loaded == load_session(m, session_id)
    IN  IF loaded.ret = "None" THEN loaded
        ELSE IF loaded.cache[session_id].is_completed
        THEN Returns(StateOf(loaded), "None")
        ELSE Returns(
                [StateOf(loaded) EXCEPT !.current = [kind |-> "ref", id |-> session_id]],
                "Session")

\* the tail of a mutator that restored the object when its save failed
MutateAndSaveRollback(m, s1, fault) ==
    LET r == SaveSession(Tick(SetCurState(m, s1)), s1, fault)
    IN  IF r.ret THEN r
        ELSE Returns(SetCurState(StateOf(r), CurState(m)), FALSE)

\* the tail of every mutator: the current object was changed to s1 in
\* place, then "return self.save_session()"
MutateAndSave(m, s1, fault) ==
    LET m1 == Tick(SetCurState(m, s1))
    IN  SaveSession(m1, s1, fault)

add_investigation_action(m, action, details, fault) ==
    IF ~HasCurrent(m) THEN Returns(m, FALSE)
    ELSE LET action_entry ==
                [timestamp |-> Iso(m.now + 1), action |-> action,
                 details |-> details, phase |-> CurState(m).current_phase]
         IN  MutateAndSave(m,
                [CurState(m) EXCEPT !.investigation_actions = Append(@, action_entry)],
                fault)

add_evidence_discovered(m, evidence, fault) ==
    IF ~HasCurrent(m) THEN Returns(m, FALSE)
    ELSE LET stamped ==
                IF evidence.discovered_at = Absent
                THEN [evidence EXCEPT !.discovered_at = Iso(m.now + 1)]
                ELSE evidence
         IN  MutateAndSave(m,
                [CurState(m) EXCEPT !.evidence_discovered = Append(@, stamped)],
                fault)

add_theory_submitted(m, theory, fault) ==
    IF ~HasCurrent(m) THEN Returns(m, FALSE)
    ELSE LET theory_entry ==
                [timestamp |-> Iso(m.now + 1), theory |-> theory,
                 phase |-> CurState(m).current_phase]
         IN  MutateAndSave(m,
                [CurState(m) EXCEPT !.theories_submitted = Append(@, theory_entry)],
                fault)

increment_hints_used(m, fault) ==
    IF ~HasCurrent(m) THEN Returns(m, FALSE)
    ELSE MutateAndSave(m, [CurState(m) EXCEPT !.hints_used = @ + 1], fault)

set_current_phase(m, phase, fault) ==
    IF ~HasCurrent(m) THEN Returns(m, FALSE)
    ELSE MutateAndSave(m, [CurState(m) EXCEPT !.current_phase = phase], fault)

\* complete_session whose "no active session" branch reports success
complete_session_unguarded(m, final_score, fault) ==
    IF ~HasCurrent(m) THEN Returns(m, TRUE)
    ELSE MutateAndSave(m,
            [CurState(m) EXCEPT
                !.is_completed = TRUE,
                !.completion_time = DT(m.now + 1),
                !.final_score = IF Truthy(final_score) THEN final_score ELSE @],
            fault)

complete_session(m, final_score, fault) ==
    IF ~HasCurrent(m) THEN Returns(m, FALSE)
    ELSE MutateAndSave(m,
            [CurState(m) EXCEPT
                !.is_completed = TRUE,
                !.completion_time = DT(m.now + 1),
                !.final_score = IF Truthy(final_score) THEN final_score ELSE @],
            fault)

\* cleanup_sessions with line 673 returning the count after the cleanup
cleanup_sessions_returns_remaining(m, max_arg) ==
    LET limit == IF max_arg = PyNone THEN m.max_sessions ELSE max_arg.v
        after == CleanupOldSessions(m, limit)
        final_count == Cardinality(DOMAIN after.files)
    IN  Returns(after, final_count)

\* cleanup_sessions(max_arg): PyNone is the default argument; returns the
\* number of records removed
cleanup_sessions(m, max_arg) ==
    LET limit == IF max_arg = PyNone THEN m.max_sessions ELSE max_arg.v
        initial_count == Cardinality(DOMAIN m.files)
        after == CleanupOldSessions(m, limit)
        final_count == Cardinality(DOMAIN after.files)
    IN  Returns(after, initial_count - final_count)

\* SessionManager(sessions_dir, max_sessions) over the same directory: a new
\* process, or another manager object, starts with nothing in memory
SessionManagerInit(m) ==
    [m EXCEPT !.current = PyNone, !.cache = EmptyMap]

----------------------------------------------------------------------------
(* The evidence-discovery resolver of the web server (src/server/app.py).  *)
(* A dict is a record over the keys it has; probabilities and the values   *)
(* of random.random() are in hundredths.                                   *)

\* dict.get(key, default)
Get(d, key, default) == IF key \in DOMAIN d THEN d[key] ELSE default

\* the keywords and type tags that occur in text.lower(), for the texts of
\* the model (Python's "kw in text" on strings)
Occurring(text) ==
    CASE text = "check email for phishing" -> {"email", "phishing", "mail"}
      [] text = "email" -> {"email", "mail"}
      [] text = "network_log" -> {"network", "log"}
      [] text = "log" -> {"log"}
      [] text = "SQL injection in the login form" -> {"sql", "injection", "log"}
      [] OTHER -> {}

\* check_for_evidence_discovery lines 70-141: action_mappings
action_mappings ==
    [examine_logs |-> {"web_log", "file_system_log", "database_log", "security_alert",
                       "security_log", "log", "process", "registry", "memory", "email"},
     analyze_network |-> {"network_log", "network", "forensic"},
     check_system |-> {"file_system_log", "security_alert", "process", "registry",
                       "malware", "forensic"},
     analyze_file |-> {"file_system_log", "process", "malware", "forensic"},
     search_database |-> {"database_log", "log", "report"},
     contact_vendor |-> {"vendor_advisory", "report", "intelligence"},
     interview_user |-> {"email", "witness", "report"},
     run_command |-> {"file_system_log", "security_alert", "process", "registry",
                      "forensic"},
     other |-> {"web_log", "network_log", "security_alert", "email", "process",
                "registry", "memory", "network", "lateral_movement", "log", "report",
                "malware", "intelligence", "forensic"}]

\* check_evidence_keywords lines 196-247: the keywords each type tag adds
TypeKeywords ==
    [email |-> {"email", "phishing", "attachment", "mail", "message", "sender"},
     process |-> {"powershell", "cmd", "process", "execution", "command", "script"},
     network |-> {"network", "traffic", "connection", "ip", "domain", "dns"},
     registry |-> {"registry", "hklm", "hkcu", "run", "startup", "persistence"},
     memory |-> {"memory", "lsass", "dump", "credential", "hash"},
     lateral_movement |-> {"smb", "admin$", "c$", "wmi", "lateral", "movement"},
     log |-> {"log", "event", "audit", "system", "security", "application"},
     report |-> {"report", "analysis", "summary", "findings", "investigation"},
     malware |-> {"malware", "virus", "trojan", "backdoor", "payload", "sample"},
     intelligence |-> {"intelligence", "ioc", "indicator", "threat", "attribution",
                       "campaign"},
     forensic |-> {"forensic", "analysis", "artifact", "evidence", "timeline",
                   "investigation"}]

\* check_evidence_keywords lines 249-257: keywords from the item's own texts
ContentKeywords(evidence_item) ==
    LET evidence_content == Occurring(Get(evidence_item, "content", ""))
        evidence_description == Occurring(Get(evidence_item, "description", ""))
        source == Occurring(Get(evidence_item, "source", ""))
    IN  (IF "sql" \in evidence_description \cup evidence_content
         THEN {"sql", "injection", "database"} ELSE {})
        \cup (IF "web shell" \in evidence_description \/ "aspx" \in evidence_content
              THEN {"web shell", "file", "aspx", "php"} ELSE {})
        \cup (IF "vendor" \in source
              THEN {"vendor", "advisory", "bulletin", "patch"} ELSE {})
        \cup (IF "hvac" \in evidence_description \cup evidence_content
              THEN {"hvac", "cooling", "heating", "vendor", "third-party"} ELSE {})

check_evidence_keywords(details, evidence_item) ==
    LET evidence_type == Occurring(Get(evidence_item, "type", ""))
        keywords ==
            UNION {TypeKeywords[tag] : tag \in DOMAIN TypeKeywords \cap evidence_type}
            \cup ContentKeywords(evidence_item)
    IN  \E keyword \in keywords : keyword \in Occurring(details)

\* calculate_discovery_chance without the min(0.95, ...) of line 282
calculate_discovery_chance_uncapped(evidence_item, keywords_match) ==
    LET importance == Get(evidence_item, "importance", "medium")
        chance == CASE importance = "critical" -> 80
                    [] importance = "high" -> 60
                    [] importance = "medium" -> 40
                    [] importance = "low" -> 20
                    [] OTHER -> 40
    IN  IF keywords_match THEN chance + 30 ELSE chance

\* calculate_discovery_chance lines 268-284, the probability in hundredths
calculate_discovery_chance(evidence_item, keywords_match) ==
    LET importance == Get(evidence_item, "importance", "medium")
        chance == CASE importance = "critical" -> 80
                    [] importance = "high" -> 60
                    [] importance = "medium" -> 40
                    [] importance = "low" -> 20
                    [] OTHER -> 40
    IN  IF keywords_match
        THEN (IF chance + 30 < 95 THEN chance + 30 ELSE 95)
        ELSE chance

\* lines 66-68 with the comprehension reading an empty list
DiscoveredIdsEmpty(evidence_discovered) == {}

\* lines 66-68: the ids of the evidence the session holds, falsy ids left out
DiscoveredIds(evidence_discovered) ==
    {evidence_discovered[i].id :
        i \in {j \in 1..Len(evidence_discovered) : "id" \in DOMAIN evidence_discovered[j]}}

\* lines 151-153 with the test dropped: no item counts as discovered
AlreadyDiscoveredNever(evidence_item, discovered_ids) == FALSE

\* lines 148-153: evidence_item.get("id") in discovered_ids (None, the id of
\* an item without one, is never in the set)
AlreadyDiscovered(evidence_item, discovered_ids) ==
    "id" \in DOMAIN evidence_item /\ evidence_item.id \in discovered_ids

\* f"ev_{n}"
GeneratedId(n) == "ev_" \o ToString(n)

\* lines 166-179: the dict returned for a discovered item
FormattedEvidence(evidence_item, evidence_discovered, t) ==
    [id |-> Get(evidence_item, "id", GeneratedId(Len(evidence_discovered) + 1)),
     type |-> Get(evidence_item, "type", "unknown"),
     source |-> Get(evidence_item, "source", "unknown"),
     importance |-> Get(evidence_item, "importance", "medium"),
     description |-> Get(evidence_item, "description", "No description available"),
     content |-> Get(evidence_item, "content", "No content available"),
     discovered_at |-> Iso(t)]

RECURSIVE ScanItems(_, _, _, _, _, _, _, _)
\* lines 147-180: the loop from item i on, draws[k] the next random.random()
ScanItems(evidence_types, details, items, evidence_discovered, draws, t, i, k) ==
    IF i > Len(items) THEN PyNone
    ELSE IF AlreadyDiscovered(items[i], DiscoveredIds(evidence_discovered))
    THEN ScanItems(evidence_types, details, items, evidence_discovered, draws, t, i + 1, k)
    ELSE IF "type" \in DOMAIN items[i] /\ items[i].type \in evidence_types
    THEN LET keywords_match == check_evidence_keywords(details, items[i])
             discovery_chance == calculate_discovery_chance(items[i], keywords_match)
         IN  IF draws[k] < discovery_chance
             THEN FormattedEvidence(items[i], evidence_discovered, t)
             ELSE ScanItems(evidence_types, details, items, evidence_discovered,
                            draws, t, i + 1, k + 1)
    ELSE ScanItems(evidence_types, details, items, evidence_discovered, draws, t, i + 1, k)

\* check_for_evidence_discovery(action, details, scenario, game_session) at
\* instant t, with scenario["evidence"]["items"] = items and
\* game_session.evidence_discovered = evidence_discovered
check_for_evidence_discovery(action, details, items, evidence_discovered, draws, t) ==
    IF items = <<>> THEN PyNone
    ELSE LET evidence_types == Get(action_mappings, action, {"security_alert"})
         IN  ScanItems(evidence_types, details, items, evidence_discovered, draws, t, 1, 1)

----------------------------------------------------------------------------
(* Resolver inputs and specification *)

\* evidence items a scenario file can hold (no key is required of an item)
ItemPool ==
    {[id |-> "E1", type |-> "email", importance |-> "critical"],
     [id |-> "E2", type |-> "network_log", importance |-> "low"],
     [id |-> "E3", type |-> "log", importance |-> "high",
      description |-> "SQL injection in the login form"],
     [type |-> "email", source |-> "mail gateway"]}

RECURSIVE SeqsUpTo(_, _)
\* the sequences over S of length at most n
SeqsUpTo(S, n) ==
    IF n = 0 THEN {<<>>}
    ELSE SeqsUpTo(S, n - 1)
         \cup {Append(s, x) : s \in {q \in SeqsUpTo(S, n - 1) : Len(q) = n - 1}, x \in S}

Scenarios == SeqsUpTo(ItemPool, MaxItems)

\* what game_session.evidence_discovered can hold when the resolver is called
DiscoveredLists ==
    {<<>>,
     <<[id |-> "E1"]>>,
     <<[id |-> "E1"], [id |-> "E2"]>>,
     <<[id |-> "E1"], [id |-> "E2"], [id |-> "E3"]>>,
     <<[note |-> "no id"], [id |-> "E2"]>>}

ResolverActions == {"examine_logs", "analyze_network", "dance"}
ResolverDetails == {"check email for phishing", "look around"}
\* values of random.random(), in hundredths
Draws == {0, 45, 99}
DrawSeqs == {s \in SeqsUpTo(Draws, MaxItems) : Len(s) = MaxItems}

NoResolverCall == [kind |-> "nocall"]

InitResolver ==
    /\ now = StartTime
    /\ max_sessions = MaxKeep
    /\ current = PyNone
    /\ cache = EmptyMap
    /\ files = EmptyMap
    /\ rin \in [action : ResolverActions, details : ResolverDetails,
                items : Scenarios, evidence_discovered : DiscoveredLists,
                draws : DrawSeqs]
    /\ rout = NoResolverCall

\* one call of check_for_evidence_discovery
Resolve ==
    /\ rout = NoResolverCall
    /\ rout' = check_for_evidence_discovery(rin.action, rin.details, rin.items,
                                            rin.evidence_discovered, rin.draws, now)
    /\ UNCHANGED <<rin, mgrVars>>

NextResolver == Resolve
SpecResolver == InitResolver /\ [][NextResolver]_vars

----------------------------------------------------------------------------
(* Inputs *)

ActionNames == {"examine_logs"}
DetailTexts == {"check email for phishing"}
TheoryTexts == {"phishing email delivered a backdoor"}
Phases == {"Containment"}
\* complete_session(final_score): the web flow passes the overall percentage
FinalScores == {Num(0), Num(85)}
\* evidence dicts a caller passes at instant t: without a discovered_at key,
\* or stamped by the caller (the resolver stamps datetime.now().isoformat())
EvidenceInputs(t) ==
    {[id |-> "E1", discovered_at |-> Absent], [id |-> "E2", discovered_at |-> Iso(t)]}
\* cleanup_sessions(): the configured limit, or cleanup_sessions(0)
CleanupArgs == {PyNone, Num(0)}

\* uuid4()[:8]: an id that no record, cache entry or live object carries
FreshIds(m) ==
    SessionIds \ (DOMAIN m.files \cup DOMAIN m.cache
                  \cup (IF HasCurrent(m) THEN {CurState(m).session_id} ELSE {}))

----------------------------------------------------------------------------
(* Actions: one call of a method *)

TimeLeft == now < StartTime + MaxTime

Apply(r) ==
    /\ now' = r.now
    /\ max_sessions' = r.max_sessions
    /\ current' = r.current
    /\ cache' = r.cache
    /\ files' = r.files
    /\ UNCHANGED resVars

\* a call that stamps or writes needs time left on the model's clock
Timed(r) == (r.now = now \/ TimeLeft) /\ Apply(r)

CreateSession(f) == \E id \in FreshIds(M) : Timed(create_session(M, id, f))
SaveCurrent(f) == Timed(save_session(M, f))
LoadSession == \E id \in SessionIds : Apply(load_session(M, id))
DeleteSession == \E id \in SessionIds : Apply(delete_session(M, id))
ResumeSession == \E id \in SessionIds : Apply(resume_session(M, id))
AddInvestigationAction(f) ==
    \E a \in ActionNames, d \in DetailTexts : Timed(add_investigation_action(M, a, d, f))
AddEvidenceDiscovered(f) ==
    \E e \in EvidenceInputs(now) : Timed(add_evidence_discovered(M, e, f))
AddTheorySubmitted(f) == \E th \in TheoryTexts : Timed(add_theory_submitted(M, th, f))
IncrementHintsUsed(f) == Timed(increment_hints_used(M, f))
SetCurrentPhase(f) == \E p \in Phases : Timed(set_current_phase(M, p, f))
CompleteSession(f) == \E fs \in FinalScores : Timed(complete_session(M, fs, f))
CleanupSessions == \E a \in CleanupArgs : Apply(cleanup_sessions(M, a))
NewManager == Apply(SessionManagerInit(M))

----------------------------------------------------------------------------
(* Specifications *)

\* a record written by an earlier process, as create_session leaves it
StoredRecord(id, t) ==
    [mtime |-> t, content |-> Serialize(NewSession(id, t)), src |-> NewSession(id, t)]

Init ==
    /\ now = StartTime
    /\ max_sessions \in 0..MaxKeep
    /\ current = PyNone
    /\ cache = EmptyMap
    /\ files = [id \in Range(StoredIds) |->
                   StoredRecord(id, CHOOSE i \in 1..Len(StoredIds) : StoredIds[i] = id)]
    /\ rin = NoResolverCall
    /\ rout = NoResolverCall

NextWith(F) ==
    \/ \E f \in F :
        \/ CreateSession(f)
        \/ SaveCurrent(f)
        \/ AddInvestigationAction(f)
        \/ AddEvidenceDiscovered(f)
        \/ AddTheorySubmitted(f)
        \/ IncrementHintsUsed(f)
        \/ SetCurrentPhase(f)
        \/ CompleteSession(f)
    \/ LoadSession
    \/ DeleteSession
    \/ ResumeSession
    \/ CleanupSessions
    \/ NewManager

\* every write succeeds
Next == NextWith({"none"})
Spec == Init /\ [][Next]_vars

\* a write may fail at open() or in json.dump
NextFault == NextWith(Faults)
SpecFault == Init /\ [][NextFault]_vars

----------------------------------------------------------------------------
(* The web flow of one game session (src/server/app.py): start_game, then  *)
(* investigate requests handled one at a time.  rin holds the Flask        *)
(* session's game_session_id and the scenario's evidence items, rout the   *)
(* evidence_found of the last request.                                     *)

\* draws that make every candidate's test succeed or fail
WebDrawSeqs == {s \in SeqsUpTo({0, 99}, MaxItems) : Len(s) = MaxItems}
WebActions == {"examine_logs", "analyze_network"}

\* the resolver's call of lines 385-387 with a variant that records what it
\* found in game_session.evidence_discovered itself
ResolverCallRecording(m, action, details, items, draws) ==
    LET found ==
            check_for_evidence_discovery(
                action, details, items, CurState(m).evidence_discovered, draws, m.now)
    IN  [session_manager |->
             IF found = PyNone THEN m
             ELSE SetCurState(m, [CurState(m) EXCEPT
                                     !.evidence_discovered = Append(@, found)]),
         items |-> items,
         ret |-> found]

\* the resolver's call of lines 385-387 in manager state m, game_session
\* being the current session: what it returns and, as no statement of lines
\* 49-182 assigns to game_session, to the scenario or to the manager, the
\* manager and the scenario's items as it found them
ResolverCall(m, action, details, items, draws) ==
    [session_manager |-> m,
     items |-> items,
     ret |-> check_for_evidence_discovery(
                 action, details, items, CurState(m).evidence_discovered, draws, m.now)]

\* investigate lines 355-392 for the session session_id; respond is whether
\* the facilitator exists and answers (otherwise the handler returns after
\* recording the action).  ret is evidence_found, or "error" when
\* load_session returned None and game_session.scenario_id raised
investigate(m, session_id, action, details, items, draws, respond) ==
    LET loaded == load_session(m, session_id)
    IN  IF loaded.ret = "None" THEN Returns(StateOf(loaded), "error")
        ELSE LET m1 == [StateOf(loaded) EXCEPT
                           !.current = [kind |-> "ref", id |-> session_id]]
                 recorded == StateOf(add_investigation_action(m1, action, details, "none"))
                 resolved == ResolverCall(recorded, action, details, items, draws)
                 evidence_found == resolved.ret
             IN  IF ~respond THEN Returns(recorded, PyNone)
                 ELSE IF evidence_found = PyNone
                 THEN Returns(resolved.session_manager, PyNone)
                 ELSE Returns(
                         StateOf(add_evidence_discovered(resolved.session_manager,
                                                         evidence_found, "none")),
                         evidence_found)

\* start_game lines 303-323 on an empty sessions directory
InitWeb ==
    /\ \E keep \in 1..MaxKeep :
          LET started ==
                  create_session(
                      [now |-> StartTime, max_sessions |-> keep, current |-> PyNone,
                       cache |-> EmptyMap, files |-> EmptyMap],
                      "s1", "none")
          IN  /\ now = started.now
              /\ max_sessions = started.max_sessions
              /\ current = started.current
              /\ cache = started.cache
              /\ files = started.files
    /\ rin \in [game_session_id : {"s1"}, items : Scenarios]
    /\ rout = NoResolverCall

\* the investigation_actions the session of the Flask session holds
RequestsHandled ==
    IF rin.game_session_id \in DOMAIN cache
    THEN Len(cache[rin.game_session_id].investigation_actions)
    ELSE IF rin.game_session_id \in DOMAIN files
    THEN Len(files[rin.game_session_id].content.investigation_actions)
    ELSE 0

\* one POST /api/investigate
Investigate ==
    /\ RequestsHandled < MaxRequests
    /\ \E action \in WebActions, details \in DetailTexts, respond \in BOOLEAN :
       \E draws \in IF respond THEN WebDrawSeqs ELSE {<<>>} :
          LET r == investigate(M, rin.game_session_id, action, details,
                               rin.items, draws, respond)
          IN  /\ now' = r.now
              /\ max_sessions' = r.max_sessions
              /\ current' = r.current
              /\ cache' = r.cache
              /\ files' = r.files
              /\ rout' = r.ret
              /\ UNCHANGED rin

\* the server process starts again: lines 26-29
Restart ==
    /\ Apply(cleanup_sessions(SessionManagerInit(M), PyNone))

NextWeb == Investigate \/ Restart
SpecWeb == InitWeb /\ [][NextWeb]_vars

----------------------------------------------------------------------------
(* Calls a caller can make in a state *)

\* the ledger, hint and phase mutator calls a caller can make on m
LedgerInputs(m) ==
    {[op |-> "add_investigation_action", action |-> a, details |-> d] :
        a \in ActionNames, d \in DetailTexts}
    \cup {[op |-> "add_evidence_discovered", evidence |-> e] : e \in EvidenceInputs(m.now)}
    \cup {[op |-> "add_theory_submitted", theory |-> th] : th \in TheoryTexts}
    \cup {[op |-> "increment_hints_used"]}
    \cup {[op |-> "set_current_phase", phase |-> p] : p \in Phases}

CompleteInputs == {[op |-> "complete_session", final_score |-> fs] : fs \in FinalScores}

MutatorInputs(m) == LedgerInputs(m) \cup CompleteInputs

\* the outcome of call c on m when its write meets fault f
Call(m, c, f) ==
    CASE c.op = "add_investigation_action" ->
            add_investigation_action(m, c.action, c.details, f)
      [] c.op = "add_evidence_discovered" -> add_evidence_discovered(m, c.evidence, f)
      [] c.op = "add_theory_submitted" -> add_theory_submitted(m, c.theory, f)
      [] c.op = "increment_hints_used" -> increment_hints_used(m, f)
      [] c.op = "set_current_phase" -> set_current_phase(m, c.phase, f)
      [] c.op = "complete_session" -> complete_session(m, c.final_score, f)

LedgerCalls(m, f) == {Call(m, c, f) : c \in LedgerInputs(m)}
MutatorCalls(m, f) == {Call(m, c, f) : c \in MutatorInputs(m)}

\* the record under the current session's id holds the in-memory state
Persisted(m) ==
    /\ HasCurrent(m)
    /\ CurState(m).session_id \in DOMAIN m.files
    /\ m.files[CurState(m).session_id].content = Serialize(CurState(m))

----------------------------------------------------------------------------
(* C1 *)

\* the ids of an evidence list are pairwise different
UniqueIds(seq) ==
    \A i, j \in 1..Len(seq) : i # j => seq[i].id # seq[j].id

\* C1: whatever add_evidence_discovered calls were made on the active
\* session, no evidence id is recorded twice in its evidence_discovered list.
C1_EvidenceRecordedOnce ==
    HasCurrent(M) => UniqueIds(CurState(M).evidence_discovered)

----------------------------------------------------------------------------
(* C2 *)

\* the directory r.files left by a save of session id from state m holds at
\* most max_sessions records, none that was not there, and they are the
\* newest: as many as the limit allows, each newer than every removed one
Retained(m, id, r) ==
    LET all == DOMAIN m.files \cup {id}
        mt(x) == IF x = id THEN r.now ELSE m.files[x].mtime
        kept == DOMAIN r.files
    IN  /\ kept \subseteq all
        /\ Cardinality(kept) <= m.max_sessions
        /\ Cardinality(kept) = m.max_sessions \/ kept = all
        /\ \A k \in kept : \A g \in all \ kept : mt(k) > mt(g)

----------------------------------------------------------------------------
(* C3 *)

\* C3: a record saved in this run, read by a manager that has not cached the
\* session, loads as a state equal, field by field and type by type, to the
\* state that was saved.
C3_RoundTrip ==
    \A id \in DOMAIN files :
        (files[id].mtime > StartTime /\ files[id].content # Corrupt) =>
            LET loaded == load_session(SessionManagerInit(M), id)
            IN  /\ loaded.ret = "Session"
                /\ loaded.cache[id] = files[id].src

----------------------------------------------------------------------------
(* C4 *)

\* C4: with max_sessions >= 1, whenever create_session returns its session
\* or a mutator returns True, whether or not the write met a fault, the
\* directory holds under the current session's id a record whose content is
\* the in-memory state.
C4_WriteThrough ==
    [][max_sessions >= 1 =>
        \A f \in Faults :
            /\ \A id \in FreshIds(M) :
                  M' = StateOf(create_session(M, id, f)) => Persisted(M')
            /\ HasCurrent(M) =>
                  \A r \in MutatorCalls(M, f) :
                      (r.ret = TRUE /\ M' = StateOf(r)) => Persisted(M')]_vars

----------------------------------------------------------------------------
(* C5 *)

\* C5: once the current session is completed, every ledger, hint and phase
\* mutator returns False and leaves the session as it was.
C5_CompletedSessionFrozen ==
    (HasCurrent(M) /\ CurState(M).is_completed) =>
        \A r \in LedgerCalls(M, "none") :
            r.ret = FALSE /\ CurState(StateOf(r)) = CurState(M)

----------------------------------------------------------------------------
(* C6 *)

----------------------------------------------------------------------------
(* C7 *)

\* C7: with no current session every mutator and complete_session, whatever
\* the disk would do to a write, returns False and leaves the records, the
\* cache and current_session as they were.
C7_NoCurrentSessionNoOp ==
    ~HasCurrent(M) =>
        \A f \in Faults : \A r \in MutatorCalls(M, f) :
            r.ret = FALSE /\ StateOf(r) = M

\* no session is current while the cache and the directory hold sessions
C7_Witness ==
    /\ ~HasCurrent(M)
    /\ DOMAIN cache # {}
    /\ DOMAIN files # {}
    /\ now > StartTime

----------------------------------------------------------------------------
(* C8 *)

\* what a mutator call c leaves when its write fails with fault f: the call
\* returns False, the current object is the one the successful call leaves,
\* every record is the one that was there or, under the session's own id, a
\* truncated file, and a later successful save_session stores the object
FailedWriteHandled(m, c, f) ==
    LET ok == Call(m, c, "none")
        r == Call(m, c, f)
        id == CurState(m).session_id
        retry == save_session(StateOf(r), "none")
    IN  /\ r.ret = FALSE
        /\ HasCurrent(r)
        /\ CurState(StateOf(r)) = CurState(StateOf(ok))
        /\ DOMAIN m.files \subseteq DOMAIN r.files
        /\ \A x \in DOMAIN r.files :
              \/ x \in DOMAIN m.files /\ r.files[x] = m.files[x]
              \/ x = id /\ r.files[x].content = Corrupt
        /\ retry.ret = TRUE
        /\ CurState(StateOf(retry)) = CurState(StateOf(ok))
        /\ Persisted(StateOf(retry))

----------------------------------------------------------------------------
(* C9 *)

\* C9: complete_session(final_score) on the current session returns True
\* and leaves it completed, with completion_time the instant of the call and
\* final_score the value passed, for every value passed.
C9_CompleteStoresScore ==
    HasCurrent(M) =>
        \A fs \in FinalScores :
            LET r == complete_session(M, fs, "none")
                s == CurState(StateOf(r))
            IN  /\ r.ret = TRUE
                /\ s.is_completed
                /\ s.completion_time = DT(r.now)
                /\ s.final_score = fs

----------------------------------------------------------------------------
(* C10 *)

\* the resolver returned an evidence dict
Discovered(r) == "id" \in DOMAIN r

\* C10: the evidence the resolver returns never carries an id the session
\* has already discovered, and when the id of every item of the scenario is
\* among the discovered ids it returns None, whatever the action, the
\* details and the random draws.
C10_NeverRediscovers ==
    rout # NoResolverCall =>
        /\ Discovered(rout) => rout.id \notin DiscoveredIds(rin.evidence_discovered)
        /\ (\A i \in 1..Len(rin.items) :
                AlreadyDiscovered(rin.items[i], DiscoveredIds(rin.evidence_discovered)))
           => rout = PyNone

\* the resolver returned None for a scenario whose ids are all discovered,
\* on an action that matches the first item's type and a draw of 0
C10_Witness ==
    /\ rout = PyNone
    /\ Len(rin.items) = MaxItems
    /\ \A i \in 1..Len(rin.items) :
          AlreadyDiscovered(rin.items[i], DiscoveredIds(rin.evidence_discovered))
    /\ rin.items[1].type \in Get(action_mappings, rin.action, {"security_alert"})
    /\ rin.draws[1] = 0

----------------------------------------------------------------------------
(* C11 *)

\* the sessions the manager holds in memory
SessionsInMemory(m) ==
    {m.cache[id] : id \in DOMAIN m.cache}
    \cup (IF HasCurrent(m) THEN {CurState(m)} ELSE {})

\* C11: whatever investigate requests were handled, one at a time, for the
\* session, no evidence id occurs twice in its evidence_discovered list, in
\* memory or in its record.
C11_InvestigateNeverRediscovers ==
    /\ \A s \in SessionsInMemory(M) : UniqueIds(s.evidence_discovered)
    /\ \A id \in DOMAIN files : UniqueIds(files[id].content.evidence_discovered)

\* two requests each added the evidence the resolver returned
C11_Witness ==
    /\ rin.game_session_id \in DOMAIN cache
    /\ Len(cache[rin.game_session_id].evidence_discovered) = 2
    /\ Len(cache[rin.game_session_id].investigation_actions) = 2
    /\ Discovered(rout)

----------------------------------------------------------------------------
(* C12 *)

\* item i of the call's scenario is type-eligible for the action and not
\* yet discovered
Candidate(i) ==
    /\ ~AlreadyDiscovered(rin.items[i], DiscoveredIds(rin.evidence_discovered))
    /\ "type" \in DOMAIN rin.items[i]
    /\ rin.items[i].type \in Get(action_mappings, rin.action, {"security_alert"})

\* the positions of the candidates, in declared order
CandidatePositions == {i \in 1..Len(rin.items) : Candidate(i)}
FirstCandidate == CHOOSE i \in CandidatePositions : \A j \in CandidatePositions : i <= j

\* the chance the call gives item i
ChanceOf(i) ==
    calculate_discovery_chance(rin.items[i],
                               check_evidence_keywords(rin.details, rin.items[i]))

\* C12: one resolver call tries only the first candidate in declared order:
\* it returns that item when the first draw succeeds and None when the first
\* draw fails, never a later-declared candidate.
C12_OnlyFirstCandidateTried ==
    (rout # NoResolverCall /\ CandidatePositions # {}) =>
        IF rin.draws[1] < ChanceOf(FirstCandidate)
        THEN rout = FormattedEvidence(rin.items[FirstCandidate],
                                      rin.evidence_discovered, now)
        ELSE rout = PyNone

----------------------------------------------------------------------------
(* C13 *)

\* C13: delete_session of an id without a record returns False and changes
\* nothing; delete_session of an id with a record returns True and removes
\* the record and the cache entry (no other record), after which
\* load_session of the id returns None and a second delete returns False.
C13_DeleteSession ==
    \A id \in SessionIds :
        LET deleted == delete_session(M, id)
            after == StateOf(deleted)
        IN  IF id \notin DOMAIN files
            THEN deleted.ret = FALSE /\ after = M
            ELSE /\ deleted.ret = TRUE
                 /\ id \notin DOMAIN after.files
                 /\ id \notin DOMAIN after.cache
                 /\ after.files = Restrict(files, DOMAIN files \ {id})
                 /\ load_session(after, id).ret = "None"
                 /\ StateOf(load_session(after, id)) = after
                 /\ delete_session(after, id).ret = FALSE
                 /\ StateOf(delete_session(after, id)) = after

\* the current session has a record and a cache entry, and another session
\* is cached although its record was never written
C13_Witness ==
    /\ current.kind = "ref"
    /\ current.id \in DOMAIN files
    /\ \E id \in DOMAIN cache : id \notin DOMAIN files

----------------------------------------------------------------------------
(* C14 *)

\* the record of id cannot be read back: it is missing, or its JSON is cut off
Unloadable(m, id) ==
    id \notin DOMAIN m.files \/ m.files[id].content = Corrupt

\* C14: load_session of an id whose record is corrupt or missing returns
\* None and leaves the cache, the current session and the records as they
\* were.
C14_LoadUnreadable ==
    \A id \in SessionIds :
        Unloadable(M, id) =>
            /\ load_session(M, id).ret = "None"
            /\ StateOf(load_session(M, id)) = M

----------------------------------------------------------------------------
(* C15 *)

\* the limits a caller can pass to cleanup_sessions, None for the configured one
CleanupLimits == {PyNone} \cup {Num(k) : k \in 0..MaxKeep}

\* r is what cleanup_sessions(max_arg) returns in state m: the newest records
\* up to the limit are left untouched, the older ones and their cache
\* entries are gone, and the count removed is returned
ManualCleanup(m, max_arg, r) ==
    LET limit == IF max_arg = PyNone THEN m.max_sessions ELSE max_arg.v
        n == Cardinality(DOMAIN m.files)
        kept == DOMAIN r.files
        gone == DOMAIN m.files \ kept
    IN  /\ r.ret = IF n > limit THEN n - limit ELSE 0
        /\ kept \subseteq DOMAIN m.files
        /\ Cardinality(gone) = r.ret
        /\ \A k \in kept : r.files[k] = m.files[k]
        /\ \A k \in kept : \A g \in gone : m.files[k].mtime > m.files[g].mtime
        /\ DOMAIN r.cache = DOMAIN m.cache \ gone

\* C15: cleanup_sessions keeps the newest records up to the limit, as the
\* automatic cleanup does, returns the number removed, max(0, n - limit), and
\* called again it removes nothing and returns 0.
C15_ManualCleanup ==
    \A max_arg \in CleanupLimits :
        LET r == cleanup_sessions(M, max_arg)
            again == cleanup_sessions(StateOf(r), max_arg)
        IN  /\ ManualCleanup(M, max_arg, r)
            /\ again.ret = 0
            /\ StateOf(again) = StateOf(r)

\* more records than the configured limit, one of the surplus ones cached
C15_Witness ==
    /\ max_sessions >= 1
    /\ Cardinality(DOMAIN files) > max_sessions
    /\ \E id \in DOMAIN cache : id \in FilesToDelete(files, max_sessions)

----------------------------------------------------------------------------
(* The scorer (src/incidenter/scoring/scorer.py).  A float percentage is    *)
(* held in hundredths of a point; every threshold it is compared with is a *)
(* whole number of points.                                                 *)

Hundredths == 100

\* lines 75-88 with the dict written lowest threshold first
grade_thresholds_ascending ==
    <<[threshold |-> 0, grade |-> "F"], [threshold |-> 40, grade |-> "D"],
      [threshold |-> 45, grade |-> "D+"], [threshold |-> 50, grade |-> "C-"],
      [threshold |-> 55, grade |-> "C"], [threshold |-> 60, grade |-> "C+"],
      [threshold |-> 65, grade |-> "B-"], [threshold |-> 70, grade |-> "B"],
      [threshold |-> 75, grade |-> "B+"], [threshold |-> 80, grade |-> "A-"],
      [threshold |-> 85, grade |-> "A"], [threshold |-> 90, grade |-> "A+"]>>

\* lines 75-88: the dict's items in insertion order
grade_thresholds ==
    <<[threshold |-> 90, grade |-> "A+"], [threshold |-> 85, grade |-> "A"],
      [threshold |-> 80, grade |-> "A-"], [threshold |-> 75, grade |-> "B+"],
      [threshold |-> 70, grade |-> "B"], [threshold |-> 65, grade |-> "B-"],
      [threshold |-> 60, grade |-> "C+"], [threshold |-> 55, grade |-> "C"],
      [threshold |-> 50, grade |-> "C-"], [threshold |-> 45, grade |-> "D+"],
      [threshold |-> 40, grade |-> "D"], [threshold |-> 0, grade |-> "F"]>>

RECURSIVE GradeFrom(_, _)
\* lines 628-631: the loop over grade_thresholds.items() from entry i on
GradeFrom(percentage, i) ==
    IF i > Len(grade_thresholds) THEN "F"
    ELSE IF percentage >= grade_thresholds[i].threshold * Hundredths
    THEN grade_thresholds[i].grade
    ELSE GradeFrom(percentage, i + 1)

\* _calculate_grade(percentage), percentage in hundredths
_calculate_grade(percentage) == GradeFrom(percentage, 1)

----------------------------------------------------------------------------
(* _calculate_grade on its own *)

\* percentages from below 0 to above 100, in hundredths
LowestPercentage == -200
HighestPercentage == 10200
Percentages == LowestPercentage..HighestPercentage

InitGrade ==
    /\ now = StartTime
    /\ max_sessions = MaxKeep
    /\ current = PyNone
    /\ cache = EmptyMap
    /\ files = EmptyMap
    /\ rin \in [percentage : Percentages]
    /\ rout = NoResolverCall

\* one call of _calculate_grade
Grade ==
    /\ rout = NoResolverCall
    /\ rout' = [grade |-> _calculate_grade(rin.percentage)]
    /\ UNCHANGED <<rin, mgrVars>>

NextGrade == Grade
SpecGrade == InitGrade /\ [][NextGrade]_vars

----------------------------------------------------------------------------
(* C18 *)

\* the letter grades, lowest first
GradeOrder == <<"F", "D", "D+", "C-", "C", "C+", "B-", "B", "B+", "A-", "A", "A+">>
GradeRank(grade) == CHOOSE i \in 1..Len(GradeOrder) : GradeOrder[i] = grade

\* the thresholds of the grading table a percentage reaches
Reached(percentage) ==
    {i \in 1..Len(grade_thresholds) :
        percentage >= grade_thresholds[i].threshold * Hundredths}

\* C18: the grade is that of the highest threshold the percentage reaches
\* and F when it reaches none; exactly 90 gives A+, a percentage of at least
\* 85 and below 90 gives A, and the next higher percentage never has a lower
\* grade.
C18_GradeOfHighestThreshold ==
    rout # NoResolverCall =>
        LET percentage == rin.percentage
            reached == Reached(percentage)
        IN  /\ reached = {} => rout.grade = "F"
            /\ reached # {} =>
                  \E i \in reached :
                      /\ \A j \in reached :
                            grade_thresholds[j].threshold <= grade_thresholds[i].threshold
                      /\ rout.grade = grade_thresholds[i].grade
            /\ percentage = 90 * Hundredths => rout.grade = "A+"
            /\ (percentage >= 85 * Hundredths /\ percentage < 90 * Hundredths)
                  => rout.grade = "A"
            /\ GradeRank(_calculate_grade(percentage + 1)) >= GradeRank(rout.grade)

\* the call graded a percentage just under 90
C18_Witness ==
    /\ rout # NoResolverCall
    /\ rin.percentage = 90 * Hundredths - 1
    /\ rout.grade = "A"

----------------------------------------------------------------------------
(* score_theory.  A component's text is held as its length and whether     *)
(* strip() leaves nothing of it; the feedback sentences and the            *)
(* category_scores display list of the result are left out.                *)

\* lines 724-732: the rubric, in the dict's order
components ==
    <<[component |-> "initial_access", max_points |-> 20],
      [component |-> "techniques_used", max_points |-> 20],
      [component |-> "timeline", max_points |-> 15],
      [component |-> "objective", max_points |-> 15],
      [component |-> "attribution", max_points |-> 10],
      [component |-> "impact", max_points |-> 10],
      [component |-> "additional_iocs", max_points |-> 10]>>
ComponentNames == {components[i].component : i \in 1..Len(components)}

Text(len, blank) == [kind |-> "text", len |-> len, blank |-> blank]

\* int(max_points * 0.9) with the factor in tenths, rounding half up instead
\* of truncating
IntOfTenthsRounded(max_points, tenths) == (max_points * tenths + 5) \div 10

\* int(max_points * 0.9), int(max_points * 0.7), int(max_points * 0.5) with
\* the factor in tenths: the float product of these weights is exact and
\* int() drops its fraction
IntOfTenths(max_points, tenths) == (max_points * tenths) \div 10

\* lines 739-751 with the length tests written >=
ComponentScoreInclusive(theory, component, max_points) ==
    IF theory[component] # Absent /\ ~theory[component].blank
    THEN LET response_length == theory[component].len
         IN  IF response_length >= 50 THEN IntOfTenths(max_points, 9)
             ELSE IF response_length >= 20 THEN IntOfTenths(max_points, 7)
             ELSE IntOfTenths(max_points, 5)
    ELSE 0

\* lines 739-751: the score of one component
ComponentScore(theory, component, max_points) ==
    IF theory[component] # Absent /\ ~theory[component].blank
    THEN LET response_length == theory[component].len
         IN  IF response_length > 50 THEN IntOfTenths(max_points, 9)
             ELSE IF response_length > 20 THEN IntOfTenths(max_points, 7)
             ELSE IntOfTenths(max_points, 5)
    ELSE 0

RECURSIVE SumOver(_, _)
\* sum(f[i] for i in 1..n)
SumOver(f, n) == IF n = 0 THEN 0 ELSE f[n] + SumOver(f, n - 1)

\* (total_score / max_possible_score) * 100 in floats, max_possible_score =
\* 100, in hundredths: the float result is the whole number total_score except
\* for the totals below, where it lies just under or just over it
FloatPercentage(total_score) ==
    IF total_score \in {29, 57, 58} THEN total_score * Hundredths - 1
    ELSE IF total_score \in {7, 14, 28, 55, 56} THEN total_score * Hundredths + 1
    ELSE total_score * Hundredths

\* lines 756-766: the performance level
PerformanceLevel(percentage) ==
    IF percentage >= 90 * Hundredths THEN "Outstanding"
    ELSE IF percentage >= 80 * Hundredths THEN "Excellent"
    ELSE IF percentage >= 70 * Hundredths THEN "Good"
    ELSE IF percentage >= 60 * Hundredths THEN "Satisfactory"
    ELSE "Needs Improvement"

\* _assess_theory_completeness: required components filled, in hundredths
_assess_theory_completeness(theory) ==
    LET required_components == {"initial_access", "techniques_used", "timeline", "objective"}
        completed == Cardinality({comp \in required_components :
                                    theory[comp] # Absent /\ ~theory[comp].blank})
    IN  (completed * Hundredths) \div Cardinality(required_components)

\* _assess_theory_plausibility: by the total length of the values
_assess_theory_plausibility(theory) ==
    LET lens == [i \in 1..Len(components) |->
                    IF theory[components[i].component] = Absent THEN 0
                    ELSE theory[components[i].component].len]
        total_length == SumOver(lens, Len(components))
    IN  IF total_length > 500 THEN "Highly detailed analysis"
        ELSE IF total_length > 200 THEN "Good level of detail"
        ELSE "Basic analysis provided"

\* score_theory(theory_record) with theory_record["theory"] = theory, a
\* function from the component names to a text or Absent
score_theory(theory) ==
    LET scores == [i \in 1..Len(components) |->
                      ComponentScore(theory, components[i].component,
                                     components[i].max_points)]
        max_points == [i \in 1..Len(components) |-> components[i].max_points]
        total_score == SumOver(scores, Len(components))
        max_possible_score == SumOver(max_points, Len(components))
        percentage == FloatPercentage(total_score)
    IN  [total_score |-> total_score,
         max_possible_score |-> max_possible_score,
         percentage |-> percentage,
         grade |-> _calculate_grade(percentage),
         performance_level |-> PerformanceLevel(percentage),
         component_scores |->
             [comp \in ComponentNames |->
                 scores[CHOOSE i \in 1..Len(components) : components[i].component = comp]],
         completeness |-> _assess_theory_completeness(theory),
         accuracy_assessment |-> _assess_theory_plausibility(theory)]

\* what a player can put in one field of the theory form: nothing, spaces
\* only, and texts at both sides of the two length tests
TheoryAnswers ==
    {Absent, Text(0, TRUE), Text(60, TRUE),
     Text(20, FALSE), Text(21, FALSE), Text(50, FALSE), Text(51, FALSE)}

InitTheory ==
    /\ now = StartTime
    /\ max_sessions = MaxKeep
    /\ current = PyNone
    /\ cache = EmptyMap
    /\ files = EmptyMap
    /\ rin \in [theory : [ComponentNames -> TheoryAnswers]]
    /\ rout = NoResolverCall

\* one call of score_theory
ScoreTheory ==
    /\ rout = NoResolverCall
    /\ rout' = score_theory(rin.theory)
    /\ UNCHANGED <<rin, mgrVars>>

NextTheory == ScoreTheory
SpecTheory == InitTheory /\ [][NextTheory]_vars

----------------------------------------------------------------------------
(* C16 *)

\* every component of the scored theory is a text longer than 50 characters
AllDetailed ==
    \A comp \in ComponentNames :
        /\ rin.theory[comp] # Absent
        /\ ~rin.theory[comp].blank
        /\ rin.theory[comp].len > 50

\* C16 as stated: a theory whose seven components are all longer than 50
\* characters gets total_score 90 of 100, grade A and performance_level
\* Excellent.
C16_DetailedTheoryScores90 ==
    (rout # NoResolverCall /\ AllDetailed) =>
        /\ rout.total_score = 90
        /\ rout.max_possible_score = 100
        /\ rout.grade = "A"
        /\ rout.performance_level = "Excellent"

\* C16: a theory whose seven components are all longer than 50 characters
\* gets total_score 89 of 100 (18 + 18 + 13 + 13 + 9 + 9 + 9), percentage 89,
\* grade A and performance_level Excellent.
C16_DetailedTheoryScores89 ==
    (rout # NoResolverCall /\ AllDetailed) =>
        /\ rout.total_score = 89
        /\ rout.max_possible_score = 100
        /\ rout.percentage = 89 * Hundredths
        /\ rout.grade = "A"
        /\ rout.performance_level = "Excellent"

\* score_theory has scored a theory with seven detailed components
C16_Witness ==
    /\ rout # NoResolverCall
    /\ AllDetailed

----------------------------------------------------------------------------
(* C17 *)

\* the share of its weight, in tenths, the text of a component earns
TenthsEarned(answer) ==
    IF answer = Absent THEN 0
    ELSE IF answer.blank THEN 0
    ELSE IF answer.len > 50 THEN 9
    ELSE IF answer.len > 20 THEN 7
    ELSE 5

\* the component scores of the result, in the rubric's order
ScoresReturned ==
    [i \in 1..Len(components) |-> rout.component_scores[components[i].component]]

\* the total is the sum of the component scores and at most 100, and a
\* theory without any filled component has total 0, percentage 0 and grade F
TotalIsSum ==
    /\ rout.total_score = SumOver(ScoresReturned, Len(components))
    /\ rout.total_score <= 100
    /\ (\A comp \in ComponentNames : TenthsEarned(rin.theory[comp]) = 0) =>
          /\ rout.total_score = 0
          /\ rout.percentage = 0
          /\ rout.grade = "F"

\* C17 as stated: every component earns exactly 90%, 70% or 50% of its
\* weight by the length of its text and 0 when absent or blank, the total is
\* the sum and at most 100, and a theory without any filled component has
\* total 0, percentage 0 and grade F.
C17_ComponentShares ==
    rout # NoResolverCall =>
        /\ \A i \in 1..Len(components) :
              10 * ScoresReturned[i]
                  = components[i].max_points
                        * TenthsEarned(rin.theory[components[i].component])
        /\ TotalIsSum

\* C17: every component earns 90%, 70% or 50% of its weight by the length of
\* its text, with the fraction dropped, and 0 when absent or blank; the
\* total is the sum and at most 100, and a theory without any filled
\* component has total 0, percentage 0 and grade F.
C17_ComponentSharesTruncated ==
    rout # NoResolverCall =>
        /\ \A i \in 1..Len(components) :
              LET exact == components[i].max_points
                               * TenthsEarned(rin.theory[components[i].component])
              IN  /\ 10 * ScoresReturned[i] <= exact
                  /\ exact < 10 * (ScoresReturned[i] + 1)
        /\ TotalIsSum

\* score_theory has scored a theory with a blank, an absent, a brief, a
\* moderate and a detailed component
C17_Witness ==
    /\ rout # NoResolverCall
    /\ rin.theory["initial_access"] = Text(60, TRUE)
    /\ rin.theory["techniques_used"] = Absent
    /\ rin.theory["timeline"] = Text(20, FALSE)
    /\ rin.theory["objective"] = Text(50, FALSE)
    /\ rin.theory["attribution"] = Text(51, FALSE)
    /\ rout.total_score = 26

----------------------------------------------------------------------------
(* _evaluate_theory_accuracy.  Texts are concrete strings; what a text      *)
(* contains is tabulated for the terms the scorer looks for.               *)

\* str.lower() of the solution values used below
Lower(text) ==
    CASE text = "Phishing" -> "phishing"
      [] text = "PowerShell" -> "powershell"
      [] text = "Hard" -> "hard"
      [] OTHER -> text

\* the terms t, of those a solution below or theory_elements names, with
\* `t in text.lower()`
LowerTerms(text) ==
    CASE text = "" -> {}
      [] text = "phishing email delivered a backdoor" -> {"phishing"}
      [] text = "Timeline: the motivation was theft; impact and technique unknown"
            -> {"timeline", "motivation", "impact", "technique"}
      [] text = "Spear phishing via email attachment with a malicious macro; timeline unclear"
            -> {"phishing", "email attachment", "macro", "timeline"}
      [] text = "insider misuse of a service account" -> {}
      [] text = "ransomware spread by PowerShell after a macro ran: impact was total"
            -> {"macro", "powershell", "ransomware", "impact"}
      [] text = "Phishing: an email attachment ran a macro that started PowerShell; timeline and impact follow"
            -> {"phishing", "email attachment", "macro", "powershell", "timeline", "impact"}
      [] OTHER -> {}

\* line 618
theory_elements == {"timeline", "motivation", "impact", "technique"}

Min(a, b) == IF a <= b THEN a ELSE b

\* _evaluate_theory_accuracy(theory, solution), the float result in hundredths
_evaluate_theory_accuracy(theory, solution) ==
    LET theory_terms == LowerTerms(Get(theory, "theory", ""))
        attack_type == Lower(Get(solution, "attack_type", ""))
        attack_vector == Lower(Get(solution, "attack_vector", ""))
        key_indicators == Get(solution, "key_indicators", <<>>)
        indicators_found ==
            Cardinality({i \in 1..Len(key_indicators) :
                            Lower(key_indicators[i]) \in theory_terms})
        elements_mentioned == Cardinality(theory_elements \cap theory_terms)
        type_points ==
            IF attack_type # "" /\ attack_type \in theory_terms THEN 30 * Hundredths ELSE 0
        vector_points ==
            IF attack_vector # "" /\ attack_vector \in theory_terms THEN 25 * Hundredths ELSE 0
        indicator_points ==
            IF key_indicators # <<>>
            THEN (indicators_found * 30 * Hundredths) \div Len(key_indicators)
            ELSE 0
        element_points ==
            (elements_mentioned * 15 * Hundredths) \div Cardinality(theory_elements)
    IN  Min(type_points + vector_points + indicator_points + element_points,
            100 * Hundredths)

\* entries of theories_submitted; the last one has no "theory" key
TheoriesSubmitted ==
    {[theory |-> text] :
        text \in {"", "phishing email delivered a backdoor",
                  "Timeline: the motivation was theft; impact and technique unknown",
                  "Spear phishing via email attachment with a malicious macro; timeline unclear",
                  "insider misuse of a service account",
                  "ransomware spread by PowerShell after a macro ran: impact was total"}}
    \cup {[confidence |-> "high"]}

\* scenario_data.get("solution", {}): EmptyMap is the scenario without a
\* solution block
Solutions ==
    {EmptyMap,
     [attack_type |-> "Phishing", attack_vector |-> "email attachment",
      key_indicators |-> <<"macro", "PowerShell">>],
     [attack_type |-> "ransomware"],
     [attack_vector |-> "email attachment"],
     [key_indicators |-> <<"macro">>],
     [attack_type |-> "", attack_vector |-> "", key_indicators |-> <<>>],
     [attack_type |-> "Phishing", key_indicators |-> <<"macro">>],
     [attack_type |-> "ransomware", attack_vector |-> "email attachment",
      key_indicators |-> <<"PowerShell", "macro">>]}

InitAccuracy ==
    /\ now = StartTime
    /\ max_sessions = MaxKeep
    /\ current = PyNone
    /\ cache = EmptyMap
    /\ files = EmptyMap
    /\ rin \in [theory : TheoriesSubmitted, solution : Solutions]
    /\ rout = NoResolverCall

\* one call of _evaluate_theory_accuracy
EvaluateAccuracy ==
    /\ rout = NoResolverCall
    /\ rout' = [accuracy |-> _evaluate_theory_accuracy(rin.theory, rin.solution)]
    /\ UNCHANGED <<rin, mgrVars>>

NextAccuracy == EvaluateAccuracy
SpecAccuracy == InitAccuracy /\ [][NextAccuracy]_vars

----------------------------------------------------------------------------
(* C19 *)

\* C19: for a scenario without a solution block _evaluate_theory_accuracy
\* returns 0 whatever the theory text is, also for a text that mentions
\* timeline, motivation, impact or technique.
C19_NoSolutionScoresZero ==
    (rout # NoResolverCall /\ rin.solution = EmptyMap) => rout.accuracy = 0

----------------------------------------------------------------------------
(* score_game_session.  A list of which only the length is read is held as *)
(* that length; int() of a non-negative quotient is \div; of the feedback *)
(* texts only the one of the theory_accuracy category is kept.            *)

\* the terms t the category scorers look for with `t in text.lower()`, for
\* the action and details texts below
ScoredTerms(text) ==
    CASE text = "identify alerts in the network logs"
            -> {"log", "network", "identify", "alert"}
      [] text = "initial broad scan of the alert queue"
            -> {"alert", "broad", "initial", "scan"}
      [] text = "contain the host"
            -> {"contain"}
      [] text = "isolate it"
            -> {"isolate"}
      [] text = "interview the user"
            -> {"interview"}
      [] text = "based on the evidence, ask for the exact time of the specific click"
            -> {"ask", "evidence", "based on", "specific", "exact"}
      [] text = "eradicate the malware"
            -> {"eradicate"}
      [] text = "remove the backdoor found by the forensic timeline"
            -> {"forensic", "timeline", "remove"}
      [] text = "recover services"
            -> {"recover"}
      [] text = "restore the mail server from the last precise backup"
            -> {"restore", "precise"}
      [] text = "lessons learned from the order of events"
            -> {"order", "lesson"}
      [] text = ""
            -> {}
      [] OTHER -> {}

\* len(text) of the same texts
TextLength(text) ==
    CASE text = "identify alerts in the network logs" -> 35
      [] text = "initial broad scan of the alert queue" -> 37
      [] text = "contain the host" -> 16
      [] text = "isolate it" -> 10
      [] text = "interview the user" -> 18
      [] text = "based on the evidence, ask for the exact time of the specific click" -> 67
      [] text = "eradicate the malware" -> 21
      [] text = "remove the backdoor found by the forensic timeline" -> 50
      [] text = "recover services" -> 16
      [] text = "restore the mail server from the last precise backup" -> 52
      [] text = "lessons learned from the order of events" -> 40
      [] text = "" -> 0
      [] OTHER -> 0

\* lines 185-193: the approach an action's name stands for, "" for none
ActionType(action) ==
    LET action_type == ScoredTerms(Get(action, "action", ""))
    IN  IF action_type \cap {"log", "network", "forensic"} # {} THEN "technical"
        ELSE IF action_type \cap {"interview", "question", "ask"} # {} THEN "human"
        ELSE IF action_type \cap {"timeline", "sequence", "order"} # {} THEN "temporal"
        ELSE ""

\* the terms in action.get("action", "") + " " + action.get("details", ""),
\* lower-cased: no term of the scorer spans the blank between the two texts
ActionTextTerms(action) ==
    ScoredTerms(Get(action, "action", "")) \cup ScoredTerms(Get(action, "details", ""))

\* _calculate_action_specificity lines 574-585 for one action, times 100
Specificity(action) ==
    LET text == ActionTextTerms(action)
        specific_count ==
            Cardinality(text \cap {"specific", "detailed", "exact", "particular", "precise"})
        general_count ==
            Cardinality(text \cap {"overview", "general", "broad", "initial", "scan"})
    IN  100 * (specific_count - general_count) + TextLength(Get(action, "details", ""))

RECURSIVE TotalSpecificity(_)
TotalSpecificity(actions) ==
    IF actions = <<>> THEN 0
    ELSE Specificity(Head(actions)) + TotalSpecificity(Tail(actions))

\* _check_logical_progression: the later half is more specific on average
\* than the earlier half (the two averages compared by cross-multiplying)
_check_logical_progression(actions) ==
    IF Len(actions) < 3 THEN FALSE
    ELSE LET half == Len(actions) \div 2
             early_actions == SubSeq(actions, 1, half)
             later_actions == SubSeq(actions, half + 1, Len(actions))
         IN  TotalSpecificity(later_actions) * Len(early_actions)
                 > TotalSpecificity(early_actions) * Len(later_actions)

Breakdown(category, points_earned, points_possible) ==
    [category |-> category, points_earned |-> points_earned,
     points_possible |-> points_possible]

\* _score_investigation_technique lines 164-242
_score_investigation_technique(scenario_data, session_data) ==
    LET actions == session_data.investigation_actions
        systematic == IF Len(actions) >= 5 THEN 20 ELSE IF Len(actions) >= 3 THEN 15 ELSE 0
        action_types == {ActionType(actions[i]) : i \in 1..Len(actions)} \ {""}
        diversity_score == Min(Cardinality(action_types) * 15, 30)
        progression == IF _check_logical_progression(actions) THEN 25 ELSE 0
        evidence_based_actions ==
            Cardinality({i \in 1..Len(actions) :
                ScoredTerms(Get(actions[i], "details", "")) \cap {"evidence", "based on"} # {}})
        evidence_based ==
            IF evidence_based_actions >= 2 THEN 25
            ELSE IF evidence_based_actions >= 1 THEN 15 ELSE 0
    IN  Breakdown("investigation_technique",
                  systematic + diversity_score + progression + evidence_based, 100)

\* _score_evidence_analysis lines 244-296; evidence_discovered,
\* evidence_correlations and evidence_interpretations are the lists' lengths
_score_evidence_analysis(scenario_data, session_data) ==
    LET total_evidence == Len(scenario_data.evidence_items)
        discovery_points ==
            IF total_evidence > 0
            THEN (session_data.evidence_discovered * 40) \div total_evidence
            ELSE 0
        correlation_points == Min(session_data.evidence_correlations * 15, 30)
        interpretation_points == Min(session_data.evidence_interpretations * 10, 30)
    IN  Breakdown("evidence_analysis",
                  discovery_points + correlation_points + interpretation_points, 100)

\* the feedback f-string of lines 341-349, as the parts it joins
TheoryFeedback(points_earned, points_possible) ==
    <<"Theory accuracy score: ", points_earned, "/", points_possible, ". ",
      IF points_earned >= 80 THEN "Excellent understanding of the incident."
      ELSE IF points_earned >= 60 THEN "Good grasp of the incident with minor gaps."
      ELSE "Theory needs refinement - consider reviewing evidence more carefully.">>

\* line 313
NoTheoriesFeedback == <<"No theories submitted for evaluation.">>

\* _score_theory_accuracy with the bonus given for one viable theory already
_score_theory_accuracy_one_viable(scenario_data, session_data) ==
    LET theories == session_data.theories_submitted
        theory_scores ==
            [i \in 1..Len(theories) |->
                _evaluate_theory_accuracy(theories[i], scenario_data.solution)]
        best_theory_score ==
            CHOOSE s \in Range(theory_scores) : \A o \in Range(theory_scores) : o <= s
        viable == Cardinality({i \in 1..Len(theories) : theory_scores[i] >= 60 * Hundredths})
        bonus == IF viable > 0 THEN 10 ELSE 0
        points_earned == Min((best_theory_score \div Hundredths) + bonus, 100)
    IN  IF theories = <<>>
        THEN [category |-> "theory_accuracy", points_earned |-> 0,
              points_possible |-> 100, feedback |-> NoTheoriesFeedback]
        ELSE [category |-> "theory_accuracy", points_earned |-> points_earned,
              points_possible |-> 100,
              feedback |-> TheoryFeedback(points_earned, 100)]

\* _score_theory_accuracy lines 298-357; int() of a score drops its fraction
_score_theory_accuracy(scenario_data, session_data) ==
    LET theories == session_data.theories_submitted
        theory_scores ==
            [i \in 1..Len(theories) |->
                _evaluate_theory_accuracy(theories[i], scenario_data.solution)]
        best_theory_score ==
            CHOOSE s \in Range(theory_scores) : \A o \in Range(theory_scores) : o <= s
        viable == Cardinality({i \in 1..Len(theories) : theory_scores[i] >= 60 * Hundredths})
        bonus == IF viable > 1 THEN 10 ELSE 0
        points_earned == Min((best_theory_score \div Hundredths) + bonus, 100)
    IN  IF theories = <<>>
        THEN [category |-> "theory_accuracy", points_earned |-> 0,
              points_possible |-> 100, feedback |-> NoTheoriesFeedback]
        ELSE [category |-> "theory_accuracy", points_earned |-> points_earned,
              points_possible |-> 100,
              feedback |-> TheoryFeedback(points_earned, 100)]

\* _score_time_efficiency lines 359-411; total_time is PyNone or Num(seconds)
_score_time_efficiency(scenario_data, session_data) ==
    LET actual_time == session_data.total_time
        expected_time == IF scenario_data.estimated_duration = Absent
                         THEN 3600
                         ELSE scenario_data.estimated_duration.v
        points_earned ==
            IF actual_time = PyNone \/ actual_time.v = 0 THEN 50
            ELSE IF 10 * actual_time.v <= 8 * expected_time THEN 100
            ELSE IF 10 * actual_time.v <= 10 * expected_time THEN 85
            ELSE IF 10 * actual_time.v <= 12 * expected_time THEN 70
            ELSE IF 10 * actual_time.v <= 15 * expected_time THEN 50
            ELSE 25
    IN  Breakdown("time_efficiency", points_earned, 100)

\* _score_completeness lines 413-477; critical_evidence_found is the list's
\* length
_score_completeness(scenario_data, session_data) ==
    LET required_areas == scenario_data.required_investigation_areas
        covered_areas == session_data.areas_investigated
        actions == session_data.investigation_actions
        coverage ==
            IF required_areas # <<>>
            THEN (Cardinality(Range(covered_areas) \cap Range(required_areas)) * 60)
                     \div Len(required_areas)
            ELSE IF Len(actions) >= 8 THEN 60
            ELSE IF Len(actions) >= 5 THEN 40
            ELSE IF Len(actions) >= 3 THEN 25
            ELSE 0
        evidence_items == scenario_data.evidence_items
        critical_evidence ==
            {i \in 1..Len(evidence_items) :
                Get(evidence_items[i], "importance", "medium") = "critical"}
        critical ==
            IF critical_evidence # {}
            THEN (session_data.critical_evidence_found * 40) \div Cardinality(critical_evidence)
            ELSE 40
    IN  Breakdown("completeness", coverage + critical, 100)

\* lines 492-509: the phase an action stands for, "" for none
PhaseOf(action) ==
    LET action_text == ActionTextTerms(action)
    IN  IF action_text \cap {"identify", "detect", "alert"} # {} THEN "identification"
        ELSE IF action_text \cap {"contain", "isolate", "block"} # {} THEN "containment"
        ELSE IF action_text \cap {"eradicate", "remove", "clean"} # {} THEN "eradication"
        ELSE IF action_text \cap {"recover", "restore", "resume"} # {} THEN "recovery"
        ELSE IF action_text \cap {"lesson", "review", "improve"} # {} THEN "lessons_learned"
        ELSE ""

\* _score_methodology lines 479-542
_score_methodology(scenario_data, session_data) ==
    LET actions == session_data.investigation_actions
        phases_covered == {PhaseOf(actions[i]) : i \in 1..Len(actions)} \ {""}
        documented_actions ==
            Cardinality({i \in 1..Len(actions) :
                            TextLength(Get(actions[i], "details", "")) > 20})
        documentation ==
            IF 10 * documented_actions >= 8 * Len(actions) THEN 20
            ELSE IF 10 * documented_actions >= 5 * Len(actions) THEN 10
            ELSE 0
    IN  Breakdown("methodology", Cardinality(phases_covered) * 20 + documentation, 100)

\* lines 65-72, in percent
category_weights ==
    <<25, 20, 30, 10, 10, 5>>

\* _calculate_efficiency_rating lines 633-656
_calculate_efficiency_rating(actual_time, expected_time) ==
    IF actual_time = PyNone \/ actual_time.v = 0 THEN "Unknown"
    ELSE IF expected_time = Absent \/ expected_time = PyNone THEN "Unknown"
    ELSE IF expected_time.v = 0 THEN "Unknown"
    ELSE IF 10 * actual_time.v <= 7 * expected_time.v THEN "Excellent"
    ELSE IF 10 * actual_time.v <= 9 * expected_time.v THEN "Very Good"
    ELSE IF 10 * actual_time.v <= 11 * expected_time.v THEN "Good"
    ELSE IF 10 * actual_time.v <= 13 * expected_time.v THEN "Average"
    ELSE IF 10 * actual_time.v <= 15 * expected_time.v THEN "Below Average"
    ELSE "Needs Improvement"

\* score_game_session lines 90-162.  percentage is the weighted percentage
\* before round(percentage, 1), in hundredths
score_game_session(scenario_data, session_data) ==
    LET breakdowns ==
            <<_score_investigation_technique(scenario_data, session_data),
              _score_evidence_analysis(scenario_data, session_data),
              _score_theory_accuracy(scenario_data, session_data),
              _score_time_efficiency(scenario_data, session_data),
              _score_completeness(scenario_data, session_data),
              _score_methodology(scenario_data, session_data)>>
        weighted_points ==
            [i \in 1..Len(breakdowns) |-> breakdowns[i].points_earned * category_weights[i]]
        weighted_possible ==
            [i \in 1..Len(breakdowns) |-> breakdowns[i].points_possible * category_weights[i]]
        total_points == SumOver(weighted_points, Len(breakdowns))
        possible_points == SumOver(weighted_possible, Len(breakdowns))
        percentage ==
            IF possible_points > 0
            THEN (total_points * 100 * Hundredths) \div possible_points
            ELSE 0
    IN  [total_points |-> total_points \div 100,
         possible_points |-> possible_points \div 100,
         percentage |-> percentage,
         grade |-> _calculate_grade(percentage),
         breakdowns |-> breakdowns,
         efficiency_rating |->
             _calculate_efficiency_rating(session_data.total_time,
                                          scenario_data.estimated_duration)]

\* investigation_actions entries as add_investigation_action writes them
\* (the timestamp is not read by the scorer), in the order of a response
\* that follows the phases
Playbook ==
    <<[action |-> "identify alerts in the network logs",
       details |-> "initial broad scan of the alert queue"],
      [action |-> "contain the host", details |-> "isolate it"],
      [action |-> "interview the user",
       details |-> "based on the evidence, ask for the exact time of the specific click"],
      [action |-> "eradicate the malware",
       details |-> "remove the backdoor found by the forensic timeline"],
      [action |-> "recover services",
       details |-> "restore the mail server from the last precise backup"],
      [action |-> "lessons learned from the order of events", details |-> ""]>>

Reverse(seq) == [i \in 1..Len(seq) |-> seq[Len(seq) + 1 - i]]

\* the action lists scored: every list of up to two actions, and the
\* playbook and its reverse cut off after any number of actions
ActionLists ==
    SeqsUpTo(Range(Playbook), 2)
    \cup {SubSeq(Playbook, 1, k) : k \in 0..Len(Playbook)}
    \cup {SubSeq(Reverse(Playbook), 1, k) : k \in 0..Len(Playbook)}

ScenarioData ==
    [evidence_items :
        {<<>>,
         <<[id |-> "E1", type |-> "email", importance |-> "critical"]>>,
         <<[id |-> "E1", type |-> "email", importance |-> "critical"],
           [id |-> "E2", type |-> "network_log", importance |-> "low"]>>},
     solution :
        {EmptyMap,
         [attack_type |-> "Phishing", attack_vector |-> "email attachment",
          key_indicators |-> <<"macro", "PowerShell">>]},
     estimated_duration : {Absent},
     required_investigation_areas : {<<>>, <<"logs", "email">>}]

SessionData ==
    [investigation_actions : ActionLists,
     evidence_discovered : {0, 1, 3},
     evidence_correlations : {0, 3},
     evidence_interpretations : {0},
     critical_evidence_found : {0, 2},
     theories_submitted :
        {<<>>,
         <<[theory |-> "Timeline: the motivation was theft; impact and technique unknown"]>>,
         <<[theory |-> "Spear phishing via email attachment with a malicious macro; timeline unclear"],
           [theory |-> "ransomware spread by PowerShell after a macro ran: impact was total"]>>,
         <<[theory |-> "Spear phishing via email attachment with a malicious macro; timeline unclear"],
           [theory |-> "Spear phishing via email attachment with a malicious macro; timeline unclear"]>>},
     total_time : {PyNone, Num(1800), Num(6000)},
     areas_investigated : {<<"email", "email", "hr">>}]

InitGame ==
    /\ now = StartTime
    /\ max_sessions = MaxKeep
    /\ current = PyNone
    /\ cache = EmptyMap
    /\ files = EmptyMap
    /\ rin \in [scenario_data : ScenarioData, session_data : SessionData]
    /\ rout = NoResolverCall

\* one call of score_game_session
ScoreGameSession ==
    /\ rout = NoResolverCall
    /\ rout' = score_game_session(rin.scenario_data, rin.session_data)
    /\ UNCHANGED <<rin, mgrVars>>

NextGame == ScoreGameSession
SpecGame == InitGame /\ [][NextGame]_vars

----------------------------------------------------------------------------
(* C20 *)

\* C20: each of the six category breakdowns of score_game_session has
\* points_possible = 100 and 0 <= points_earned <= points_possible, and the
\* overall percentage lies in 0..100.
C20_BreakdownsWithinRange ==
    rout # NoResolverCall =>
        /\ Len(rout.breakdowns) = 6
        /\ \A i \in 1..Len(rout.breakdowns) :
              /\ rout.breakdowns[i].points_possible = 100
              /\ 0 <= rout.breakdowns[i].points_earned
              /\ rout.breakdowns[i].points_earned <= rout.breakdowns[i].points_possible
        /\ 0 <= rout.percentage
        /\ rout.percentage <= 100 * Hundredths

----------------------------------------------------------------------------
(* _score_theory_accuracy on its own: every list of up to MaxTheories     *)
(* submitted theories against every solution block.                       *)

MaxTheories == 3

\* theories_submitted entries: those of TheoriesSubmitted and one text that
\* names every element of the full solution
TheoryEntries ==
    TheoriesSubmitted
    \cup {[theory |-> "Phishing: an email attachment ran a macro that started PowerShell; timeline and impact follow"]}

InitTheoryAccuracy ==
    /\ now = StartTime
    /\ max_sessions = MaxKeep
    /\ current = PyNone
    /\ cache = EmptyMap
    /\ files = EmptyMap
    /\ rin \in [scenario_data : [solution : Solutions],
                session_data : [theories_submitted : SeqsUpTo(TheoryEntries, MaxTheories)]]
    /\ rout = NoResolverCall

\* one call of _score_theory_accuracy
ScoreTheoryAccuracy ==
    /\ rout = NoResolverCall
    /\ rout' = _score_theory_accuracy(rin.scenario_data, rin.session_data)
    /\ UNCHANGED <<rin, mgrVars>>

NextTheoryAccuracy == ScoreTheoryAccuracy
SpecTheoryAccuracy == InitTheoryAccuracy /\ [][NextTheoryAccuracy]_vars

----------------------------------------------------------------------------
(* C21 *)

\* the accuracy of the i-th submitted theory, in hundredths
ScoreOfTheory(i) ==
    _evaluate_theory_accuracy(rin.session_data.theories_submitted[i],
                              rin.scenario_data.solution)

\* more than one submitted theory scores at least 60 on its own
SeveralViable ==
    \E i, j \in 1..Len(rin.session_data.theories_submitted) :
        /\ i # j
        /\ ScoreOfTheory(i) >= 60 * Hundredths
        /\ ScoreOfTheory(j) >= 60 * Hundredths

\* C21: the theory_accuracy breakdown is out of 100; with no theory it is 0
\* with the no-theories feedback; otherwise its points are those of a theory
\* no other theory scores above (whole points), plus 10 exactly when more
\* than one theory scores at least 60, capped at 100, and the feedback is
\* not the no-theories one.
C21_BestTheoryPlusBonus ==
    rout # NoResolverCall =>
        /\ rout.points_possible = 100
        /\ IF rin.session_data.theories_submitted = <<>>
           THEN rout.points_earned = 0 /\ rout.feedback = NoTheoriesFeedback
           ELSE /\ rout.feedback # NoTheoriesFeedback
                /\ \E i \in 1..Len(rin.session_data.theories_submitted) :
                      /\ \A j \in 1..Len(rin.session_data.theories_submitted) :
                            ScoreOfTheory(j) <= ScoreOfTheory(i)
                      /\ LET uncapped ==
                                 (ScoreOfTheory(i) \div Hundredths)
                                 + (IF SeveralViable THEN 10 ELSE 0)
                         IN  rout.points_earned = Min(uncapped, 100)

\* two viable theories, the best at 92.5: 92 + 10 is capped at 100
C21_Witness ==
    /\ rout # NoResolverCall
    /\ SeveralViable
    /\ \E i \in 1..Len(rin.session_data.theories_submitted) :
          ScoreOfTheory(i) = 9250
    /\ rout.points_earned = 100

----------------------------------------------------------------------------
(* calculate_discovery_chance on its own, called as the resolver calls it  *)
(* (lines 157-160): on an item and the keyword match of the details.       *)

\* values of an item's "importance" key: the four rated ones and two the
\* table does not hold
Importances == {"critical", "high", "medium", "low", "urgent", "Critical"}

\* the items of ItemPool with every importance, and without the key
ChanceItems ==
    LET Others(item) == [key \in DOMAIN item \ {"importance"} |-> item[key]]
    IN  {Others(item) : item \in ItemPool}
        \cup {Others(item) @@ [importance |-> importance] :
                 item \in ItemPool, importance \in Importances}

InitChance ==
    /\ now = StartTime
    /\ max_sessions = MaxKeep
    /\ current = PyNone
    /\ cache = EmptyMap
    /\ files = EmptyMap
    /\ rin \in [evidence_item : ChanceItems, details : ResolverDetails]
    /\ rout = NoResolverCall

\* lines 157-160 for one item
DiscoveryChance ==
    /\ rout = NoResolverCall
    /\ LET keywords_match == check_evidence_keywords(rin.details, rin.evidence_item)
       IN  rout' = [keywords_match |-> keywords_match,
                    discovery_chance |->
                        calculate_discovery_chance(rin.evidence_item, keywords_match)]
    /\ UNCHANGED <<rin, mgrVars>>

NextChance == DiscoveryChance
SpecChance == InitChance /\ [][NextChance]_vars

----------------------------------------------------------------------------
(* C22 *)

\* the base rate the claim gives an importance, in hundredths
BaseRate(evidence_item) ==
    LET importance == Get(evidence_item, "importance", "medium")
    IN  IF importance = "critical" THEN 80
        ELSE IF importance = "high" THEN 60
        ELSE IF importance = "low" THEN 20
        ELSE 40

\* C22: the discovery probability is the base rate of the item's importance
\* (critical 0.8, high 0.6, medium 0.4, low 0.2, anything else or none 0.4),
\* plus 0.3 capped at 0.95 when the keywords match; it lies strictly between
\* 0 and 1, is 0.95 for a critical item with a match, and is never below
\* the probability of the same item without a match.
C22_DiscoveryChance ==
    rout # NoResolverCall =>
        /\ rout.discovery_chance =
              IF rout.keywords_match
              THEN Min(BaseRate(rin.evidence_item) + 30, 95)
              ELSE BaseRate(rin.evidence_item)
        /\ 0 < rout.discovery_chance
        /\ rout.discovery_chance < 100
        /\ (rout.keywords_match /\ Get(rin.evidence_item, "importance", "medium") = "critical")
              => rout.discovery_chance = 95
        /\ rout.discovery_chance >= calculate_discovery_chance(rin.evidence_item, FALSE)

\* a critical item whose keywords match: 0.8 + 0.3 is capped at 0.95
C22_Witness ==
    /\ rout # NoResolverCall
    /\ rout.keywords_match
    /\ Get(rin.evidence_item, "importance", "medium") = "critical"
    /\ rout.discovery_chance = 95

----------------------------------------------------------------------------
(* C23 *)

\* the manager as investigate has it when it calls the resolver (lines
\* 355-361 done): the session loaded and made current, the action recorded
BeforeResolver(action, details) ==
    LET loaded == load_session(M, rin.game_session_id)
    IN  StateOf(add_investigation_action(
                    [StateOf(loaded) EXCEPT
                        !.current = [kind |-> "ref", id |-> rin.game_session_id]],
                    action, details, "none"))

----------------------------------------------------------------------------
(* C24 *)

IsPrefix(old, new) == Len(old) <= Len(new) /\ SubSeq(new, 1, Len(old)) = old

\* the three ledgers of the session value new start with those of old, the
\* entries compared as save_session writes them (a timestamp that a reload
\* turned into a datetime counts as the same timestamp)
LedgersExtend(old, new) ==
    /\ IsPrefix(SerializeEntries(old.investigation_actions),
                SerializeEntries(new.investigation_actions))
    /\ IsPrefix(SerializeEvidence(old.evidence_discovered),
                SerializeEvidence(new.evidence_discovered))
    /\ IsPrefix(SerializeEntries(old.theories_submitted),
                SerializeEntries(new.theories_submitted))

\* C24: over one SessionManager operation the ledgers of every session only
\* grow at the end: the persisted record of a session that stays stored,
\* the cached object of a session that stays cached and the current session
\* when it stays the same session keep the entries they had, unchanged (the
\* recorded phase included) and in order.
C24_LedgersAppendOnly ==
    [][\A id \in SessionIds :
          /\ (id \in DOMAIN files /\ id \in DOMAIN files')
                => LedgersExtend(files[id].content, files'[id].content)
          /\ (id \in DOMAIN cache /\ id \in DOMAIN cache')
                => LedgersExtend(cache[id], cache'[id])
          /\ (HasCurrent(M) /\ HasCurrent(M') /\ CurState(M).session_id = id
                /\ CurState(M').session_id = id)
                => LedgersExtend(CurState(M), CurState(M'))]_vars

----------------------------------------------------------------------------
(* C25 *)

\* increment_hints_used called in the state at hand, when it returns True
IncrementAddsOne ==
    LET r == increment_hints_used(M, "none")
        before == CurState(M)
        after == CurState(StateOf(r))
    IN  r.ret = TRUE =>
            /\ after.hints_used = before.hints_used + 1
            /\ after.investigation_actions = before.investigation_actions
            /\ after.evidence_discovered = before.evidence_discovered
            /\ after.theories_submitted = before.theories_submitted
            /\ after.current_phase = before.current_phase
            /\ after.is_completed = before.is_completed

\* C25: a session that create_session has just made has hints_used 0; over
\* one SessionManager operation the hints_used of a session does not go
\* down, in its persisted record, in its cached object or as the current
\* session; and an increment_hints_used that returns True raises the counter
\* of the current session by exactly 1 and leaves its ledgers, phase and
\* completion flag as they were.
C25_HintsNeverDecrease ==
    [][/\ \A id \in SessionIds :
            /\ (id \in DOMAIN files /\ id \in DOMAIN files')
                  => files[id].content.hints_used <= files'[id].content.hints_used
            /\ (id \in DOMAIN cache /\ id \in DOMAIN cache')
                  => cache[id].hints_used <= cache'[id].hints_used
            /\ (HasCurrent(M) /\ HasCurrent(M') /\ CurState(M).session_id = id
                  /\ CurState(M').session_id = id)
                  => CurState(M).hints_used <= CurState(M').hints_used
            /\ (id \notin DOMAIN files /\ id \notin DOMAIN cache /\ id \in DOMAIN cache')
                  => cache'[id].hints_used = 0
       /\ IncrementAddsOne]_vars

----------------------------------------------------------------------------
(* create_session with the id as line 84 draws it: the first 8 characters  *)
(* of a random uuid4, not compared with the ids in use.  rout holds the    *)
(* session the last create_session returned.                               *)

CreateAnyId ==
    /\ TimeLeft
    /\ \E id \in SessionIds :
          LET r == create_session(M, id, "none")
          IN  /\ now' = r.now
              /\ max_sessions' = r.max_sessions
              /\ current' = r.current
              /\ cache' = r.cache
              /\ files' = r.files
              /\ rout' = [session |-> NewSession(id, r.now)]
              /\ UNCHANGED rin

NextCreate ==
    \/ CreateAnyId
    \/ AddInvestigationAction("none")
    \/ IncrementHintsUsed("none")
    \/ CompleteSession("none")
    \/ AddTheorySubmitted("none")
    \/ SetCurrentPhase("none")
    \/ LoadSession
    \/ NewManager

SpecCreate == Init /\ [][NextCreate]_vars

----------------------------------------------------------------------------
(* C26 *)

\* C26: the session a create_session call returns has an id that, when the
\* call was made, had no persisted record and no cache entry, and it has
\* empty ledgers, hints_used 0 and is_completed false.
C26_CreatedIdIsFresh ==
    [][rout' # rout =>
          /\ rout'.session.session_id \notin DOMAIN files
          /\ rout'.session.session_id \notin DOMAIN cache
          /\ rout'.session.investigation_actions = <<>>
          /\ rout'.session.evidence_discovered = <<>>
          /\ rout'.session.theories_submitted = <<>>
          /\ rout'.session.hints_used = 0
          /\ rout'.session.is_completed = FALSE]_vars

----------------------------------------------------------------------------
(* Two web clients on the one module-level session_manager of app.py line  *)
(* 26.  The development server of line 665 handles each request in its own *)
(* thread, so the statements of two handlers interleave; a step here is    *)
(* one statement of a handler that reads or writes the manager.  rin holds *)
(* for each client the handler its request runs and how far it has come.   *)

\* SessionManager() takes the default max_sessions
DefaultMaxSessions == 10

Clients == {"A", "B"}
\* session["game_session_id"] of each client's Flask session
GameSessionOf == [A |-> "s1", B |-> "s2"]
Handlers == {"investigate", "submit_theory", "get_hint", "complete_scenario"}
\* what each client posts
ActionOf == [A |-> "examine_logs", B |-> "analyze_network"]
TheoryOf == [A |-> "phishing email delivered a backdoor",
             B |-> "insider misuse of a service account"]
\* the evidence items of the scenario both sessions play: the email answers
\* to examine_logs only, the network log to analyze_network only
SharedScenario ==
    <<[id |-> "E1", type |-> "email", importance |-> "critical"],
      [id |-> "E2", type |-> "network_log", importance |-> "low"]>>

\* both clients have started their game (start_game, one after the other)
InitInterleave ==
    /\ LET first == create_session(
                        [now |-> StartTime, max_sessions |-> DefaultMaxSessions,
                         current |-> PyNone, cache |-> EmptyMap, files |-> EmptyMap],
                        GameSessionOf["A"], "none")
           started == create_session(StateOf(first), GameSessionOf["B"], "none")
       IN  /\ now = started.now
           /\ max_sessions = started.max_sessions
           /\ current = started.current
           /\ cache = started.cache
           /\ files = started.files
    /\ rin \in [Clients -> [handler : Handlers, pc : {"start"}]]
    /\ rout = NoResolverCall

\* the manager becomes r, client c's request comes to pc
Proceed(c, r, pc) ==
    /\ now' = r.now
    /\ max_sessions' = r.max_sessions
    /\ current' = r.current
    /\ cache' = r.cache
    /\ files' = r.files
    /\ rin' = [rin EXCEPT ![c].pc = pc]
    /\ UNCHANGED rout

\* game_session = session_manager.load_session(session["game_session_id"])
LoadStep(c) ==
    /\ rin[c].pc = "start"
    /\ LET r == load_session(M, GameSessionOf[c])
       IN  Proceed(c, r, IF r.ret = "None" THEN "done" ELSE "loaded")

\* session_manager.current_session = game_session
SetCurrentStep(c) ==
    /\ rin[c].pc = "loaded"
    /\ Proceed(c, [M EXCEPT !.current = [kind |-> "ref", id |-> GameSessionOf[c]]],
               "current")

\* the handler's mutator call: it acts on whatever current_session is now
MutateStep(c) ==
    /\ rin[c].pc = "current"
    /\ \/ /\ rin[c].handler = "investigate"
          /\ \E details \in DetailTexts :
                Proceed(c, add_investigation_action(M, ActionOf[c], details, "none"),
                        "recorded")
       \/ /\ rin[c].handler = "submit_theory"
          /\ Proceed(c, add_theory_submitted(M, TheoryOf[c], "none"), "done")
       \/ /\ rin[c].handler = "get_hint"
          /\ Proceed(c, increment_hints_used(M, "none"), "done")
       \/ /\ rin[c].handler = "complete_scenario"
          /\ Proceed(c, complete_session(M, Num(85), "none"), "done")

\* investigate lines 385-392, after the facilitator's answer: the resolver
\* reads the handler's own game_session, add_evidence_discovered writes to
\* current_session
DiscoverStep(c) ==
    /\ rin[c].pc = "recorded"
    /\ \E details \in DetailTexts, draws \in WebDrawSeqs :
          LET game_session ==
                  IF GameSessionOf[c] \in DOMAIN cache
                  THEN cache[GameSessionOf[c]]
                  ELSE NewSession(GameSessionOf[c], StartTime)
              evidence_found ==
                  check_for_evidence_discovery(
                      ActionOf[c], details, SharedScenario,
                      game_session.evidence_discovered, draws, now)
          IN  IF evidence_found = PyNone
              THEN Proceed(c, M, "done")
              ELSE Proceed(c, add_evidence_discovered(M, evidence_found, "none"), "done")

NextInterleave ==
    \E c \in Clients :
        \/ LoadStep(c)
        \/ SetCurrentStep(c)
        \/ MutateStep(c)
        \/ DiscoverStep(c)

SpecInterleave == InitInterleave /\ [][NextInterleave]_vars

----------------------------------------------------------------------------
(* C27 *)

\* the evidence a client's action can turn up
EvidenceOf == [A |-> {"E1"}, B |-> {"E2"}]

\* what client c's request has recorded so far, of the given kind
Issued(c, handler, pcs) ==
    IF rin[c].handler = handler /\ rin[c].pc \in pcs THEN 1 ELSE 0

\* C27: with the two clients' requests interleaved, the session of each
\* client holds what that client's request recorded and nothing else: its
\* action, its evidence, its theory, its hint increment and its completion,
\* never those of the other client.
C27_RequestsStayInTheirSession ==
    \A c \in Clients :
        LET s == cache[GameSessionOf[c]]
        IN  /\ Len(s.investigation_actions)
                  = Issued(c, "investigate", {"recorded", "done"})
            /\ \A i \in 1..Len(s.investigation_actions) :
                  s.investigation_actions[i].action = ActionOf[c]
            /\ \A i \in 1..Len(s.evidence_discovered) :
                  s.evidence_discovered[i].id \in EvidenceOf[c]
            /\ Len(s.theories_submitted) = Issued(c, "submit_theory", {"done"})
            /\ \A i \in 1..Len(s.theories_submitted) :
                  s.theories_submitted[i].theory = TheoryOf[c]
            /\ s.hints_used = Issued(c, "get_hint", {"done"})
            /\ s.is_completed = (Issued(c, "complete_scenario", {"done"}) = 1)

----------------------------------------------------------------------------
(* C28 *)

\* C28: whatever operations ran, failed saves included, every session id in
\* the manager's cache has a record in the sessions directory, and
\* load_session returns a session only for an id that has one.
C28_CachedIdsAreStored ==
    \A id \in SessionIds :
        /\ id \in DOMAIN cache => id \in DOMAIN files
        /\ load_session(M, id).ret # "None" => id \in DOMAIN files

----------------------------------------------------------------------------
(* C29 *)

\* a completed session value old is still completed in new, at the same
\* completion_time
StaysCompleted(old, new) ==
    old.is_completed =>
        new.is_completed /\ new.completion_time = old.completion_time

\* C29: over one SessionManager operation a session that is completed stays
\* completed with the completion_time it had: in its persisted record while
\* the record stays, in its cached object while it stays cached, and as the
\* current session while the current session is that session.
C29_CompletionIsFinal ==
    [][\A id \in SessionIds :
          /\ (id \in DOMAIN files /\ id \in DOMAIN files')
                => StaysCompleted(files[id].content, files'[id].content)
          /\ (id \in DOMAIN cache /\ id \in DOMAIN cache')
                => StaysCompleted(cache[id], cache'[id])
          /\ (HasCurrent(M) /\ HasCurrent(M') /\ CurState(M).session_id = id
                /\ CurState(M').session_id = id)
                => StaysCompleted(CurState(M), CurState(M'))]_vars

----------------------------------------------------------------------------
(* The CLI game loop, GameSession._main_game_loop of                       *)
(* src/incidenter/cli/game_session.py.  rin holds the scenario's           *)
(* difficulty and the team size the session was made with; rout holds the  *)
(* GameSession's fields and the loop's locals: where control is (pc), how  *)
(* it left the loop (left_by), the lengths of investigation_history and    *)
(* player_theories, the inputs that were not investigations (commands),    *)
(* the theories asked for after the loop (forced), and whether             *)
(* _save_session ran.                                                      *)

MaxTeamSize == 6
MaxCommands == 2

\* scenario_metadata.difficulty values: the mapped ones, one in capitals and
\* one the mapping does not hold
Difficulties ==
    {"easy", "medium", "hard", "expert", "beginner", "intermediate", "advanced",
     "Hard", "nightmare"}
\* --team-size: the number of players
TeamSizes == 1..MaxTeamSize

\* lines 768-776
difficulty_mapping ==
    [easy |-> "beginner", medium |-> "intermediate", hard |-> "advanced",
     expert |-> "expert", beginner |-> "beginner",
     intermediate |-> "intermediate", advanced |-> "advanced"]

\* lines 781-786
base_investigations ==
    [beginner |-> 30, intermediate |-> 25, advanced |-> 20, expert |-> 10]

\* _get_max_investigations lines 762-791; the multiplier
\* min(1.5, 1 + (team_size - 1) * 0.1) is held in tenths, int() drops the
\* fraction of the product
_get_max_investigations(difficulty, team_size) ==
    LET complexity == Lower(difficulty)
        mapped_complexity == Get(difficulty_mapping, complexity, "intermediate")
        team_multiplier == Min(15, 10 + (team_size - 1))
    IN  (base_investigations[mapped_complexity] * team_multiplier) \div 10

\* inputs the loop answers without an investigation, other than "theory"
\* (a "quit" stands for one that is not confirmed)
FreeInputs == {"", "quit", "status", "evidence", "evidence detail e1", "help", "hint"}

\* line 196: the loop is entered
InitLoop ==
    /\ now = StartTime
    /\ max_sessions = MaxKeep
    /\ current = PyNone
    /\ cache = EmptyMap
    /\ files = EmptyMap
    /\ rin \in [difficulty : Difficulties, team_size : TeamSizes]
    /\ rout = [pc |-> "prompt",
               left_by |-> "none",
               max_investigations |->
                   _get_max_investigations(rin.difficulty, rin.team_size),
               investigations_remaining |->
                   _get_max_investigations(rin.difficulty, rin.team_size),
               investigation_history |-> 0,
               player_theories |-> 0,
               commands |-> 0,
               forced |-> 0,
               saved |-> FALSE]

\* the loop body may run: line 198
AtPrompt == rout.pc = "prompt" /\ rout.investigations_remaining > 0

\* lines 206-207 and 210-236 but "theory": the input is answered, continue
FreeCommand ==
    /\ AtPrompt
    /\ rout.commands < MaxCommands
    /\ \E user_input \in FreeInputs :
          rout' = [rout EXCEPT !.commands = @ + 1]
    /\ UNCHANGED <<rin, mgrVars>>

\* lines 217-219: "theory" at the prompt
TheoryCommand ==
    /\ AtPrompt
    /\ rout.commands < MaxCommands
    /\ rout' = [rout EXCEPT !.commands = @ + 1, !.player_theories = @ + 1]
    /\ UNCHANGED <<rin, mgrVars>>

\* lines 210-214: "quit" or "exit", confirmed
Quit ==
    /\ AtPrompt
    /\ rout' = [rout EXCEPT !.saved = TRUE, !.pc = "returned", !.left_by = "quit"]
    /\ UNCHANGED <<rin, mgrVars>>

\* lines 238-239 with the count left as it is
ProcessInvestigationUncounted ==
    /\ AtPrompt
    /\ rout' = [rout EXCEPT
                   !.investigation_history = @ + 1,
                   !.pc = IF rout.investigations_remaining > 0
                          THEN "confirm" ELSE "prompt"]
    /\ UNCHANGED <<rin, mgrVars>>

\* lines 238-242: any other input is an investigation request
ProcessInvestigation ==
    /\ AtPrompt
    /\ rout' = [rout EXCEPT
                   !.investigation_history = @ + 1,
                   !.investigations_remaining = @ - 1,
                   !.pc = IF rout.investigations_remaining - 1 > 0
                          THEN "confirm" ELSE "prompt"]
    /\ UNCHANGED <<rin, mgrVars>>

\* lines 243-247: "Would you like to submit your theory now?"
ConfirmTheory ==
    /\ rout.pc = "confirm"
    /\ \E answer \in BOOLEAN :
          rout' = IF answer
                  THEN [rout EXCEPT !.player_theories = @ + 1,
                                    !.pc = "after_loop", !.left_by = "break"]
                  ELSE [rout EXCEPT !.pc = "prompt"]
    /\ UNCHANGED <<rin, mgrVars>>

\* line 198 when the condition fails
LeaveLoop ==
    /\ rout.pc = "prompt"
    /\ rout.investigations_remaining <= 0
    /\ rout' = [rout EXCEPT !.pc = "after_loop", !.left_by = "while"]
    /\ UNCHANGED <<rin, mgrVars>>

\* lines 249-254
FinalTheory ==
    /\ rout.pc = "after_loop"
    /\ rout' = IF rout.investigations_remaining = 0
               THEN [rout EXCEPT !.player_theories = @ + 1, !.forced = @ + 1,
                                 !.pc = "returned"]
               ELSE [rout EXCEPT !.pc = "returned"]
    /\ UNCHANGED <<rin, mgrVars>>

NextLoop ==
    \/ FreeCommand
    \/ TheoryCommand
    \/ Quit
    \/ ProcessInvestigation
    \/ ConfirmTheory
    \/ LeaveLoop
    \/ FinalTheory

SpecLoop == InitLoop /\ [][NextLoop]_vars

----------------------------------------------------------------------------
(* C30 *)

\* C30: the loop processes at most max_investigations investigation
\* requests, and every input that is not an investigation leaves the count
\* as it is (processed plus remaining is always max_investigations); when
\* _main_game_loop has returned, the player quit, or submitted a theory
\* when asked after an investigation with requests left, or the count is 0
\* and exactly one theory submission was forced; no theory is forced in the
\* first two cases.
C30_LoopIsBounded ==
    /\ rout.investigation_history <= rout.max_investigations
    /\ rout.investigation_history + rout.investigations_remaining
          = rout.max_investigations
    /\ rout.forced <= 1
    /\ rout.pc = "returned" =>
          \/ rout.left_by = "quit" /\ rout.saved /\ rout.forced = 0
          \/ /\ rout.left_by = "break"
             /\ rout.investigation_history >= 1
             /\ rout.investigations_remaining > 0
             /\ rout.player_theories >= 1
             /\ rout.forced = 0
          \/ /\ rout.left_by = "while"
             /\ rout.investigations_remaining = 0
             /\ rout.forced = 1

\* every request used, with other commands in between: one forced theory
C30_Witness ==
    /\ rout.pc = "returned"
    /\ rout.left_by = "while"
    /\ rout.investigation_history = rout.max_investigations
    /\ rout.commands = MaxCommands
    /\ rout.forced = 1

====
